---- MODULE Spec2Model ----
(***************************************************************************)
(* Model of the coco firmware: the durable upload queue kept on the SD     *)
(* card, the capture -> persistence pipeline, the uploader and the backend *)
(* reachability controller.                                                *)
(*                                                                         *)
(* Strings are sequences of one-character strings, so that indexOf,        *)
(* substring, readStringUntil, trim and println are computed as the        *)
(* Arduino String / Stream classes compute them.  The SD card is a         *)
(* function from the names of the files that exist to their contents.      *)
(***************************************************************************)
EXTENDS Integers, Sequences, FiniteSets, TLC

VARIABLES
    sd,          \* SD card: [existing file name -> content]
    impl,        \* which durable-queue code runs: "FileSystem" (FileSystem.cpp) or "main" (main.cpp)
    enq,         \* history: the paths accepted by enqueue, in call order
    deq,         \* history: number of heads removed by dequeueHead
    lastPeek,    \* result of the most recent peekHead
    hOp,         \* the operation the sequential client performed last
    sdMutex,     \* FileSystem::sdMutex / sdMutex: "free" or the task that holds it
    dqPc,        \* position of the task that runs dequeueHead step by step
    dqContent,   \* its local String: the content read (FileSystem.cpp), the unread rest (main.cpp)
    pre,         \* history: the queue as it was when the running/last dequeueHead began
    rebooted,    \* history: the device was reset and no queue operation ran since
    crashes      \* history: number of resets

VARIABLES
    recordingRequested,  \* Application::recordingRequested
    readyForDeepSleep,   \* main.cpp readyForDeepSleep
    wasRecording,        \* AudioManager::wasRecording
    recPc,               \* recordAudioTask: "loop" (canRecord next) or "record" (recordWAV running)
    recChunk,            \* recordAudioTask: the AudioBuffer being filled
    capSeq,              \* number of timestamps handed out to chunks so far
    audioQueue,          \* AudioManager::audioQueue
    toggles,             \* history: number of button toggles
    session,             \* history: number of sessions the capture task has begun
    pushed,              \* history: the chunks accepted by xQueueSend, in order
    perPc,               \* audioFileTask: "recv", "write" or "enq"
    perChunk,            \* audioFileTask: the AudioBuffer received
    perFile,             \* audioFileTask: fileName
    audioFileIndex,      \* Application::audioFileIndex
    bootSession,         \* Application::bootSession
    wavFilesAvailable,   \* Application::wavFilesAvailable (filesAvailable)
    appended,            \* history: the chunks whose path was appended to the durable queue
    wifiConnected,       \* Application::wifiConnected
    backendReachable,    \* Application::backendReachable
    now,                 \* millis()
    nextBackendCheckTime,            \* BackendClient::nextBackendCheckTime
    currentBackendInterval,          \* BackendClient::currentBackendInterval
    httpMutex,           \* Application::httpMutex: "free" or its holder
    upState,             \* the upload task: "alive" or "deleted"
    upPc,                \* fileUploadTaskFunction: position in the loop
    nextFile,            \* fileUploadTaskFunction: nextFile
    httpResponseCode,    \* uploadFileFromBuffer: httpResponseCode of this cycle, 0 before the request
    upContent,           \* removeFirstFromUploadQueue: content
    uploadTaskHandle,    \* BackendClient::uploadTaskHandle: "null" or "task"
    consecutiveUploadFailures,       \* BackendClient::consecutiveUploadFailures
    shouldRestartReachabilityTask,   \* BackendClient::shouldRestartReachabilityTask
    uploadMutex,         \* BackendClient::uploadMutex: "free" or "uploader"
    uploadInProgress,    \* Application::uploadInProgress
    uploaded,            \* history: the paths whose transfer succeeded, in order
    failuresInRow,       \* history: failed cycles since the last successful transfer
    rt,                  \* the reachability tasks that were created
    reachabilityTaskHandle           \* BackendClient::reachabilityTaskHandle: 0 or a task

VARIABLES
    asleep,              \* esp_deep_sleep_start() was called: the processor is halted
    dsPc                 \* deepSleepTask: "delay", "check" (isSystemIdle next), "flush", "store"

VARIABLES
    logQueue,            \* number of messages waiting in the log queue
    lfPc,                \* logFlushTask: "poll", "write" (LogManager.cpp), "drain" (main.cpp)
    lfHeld               \* LogManager::logFlushTask: number of messages in pendingLogs

VARIABLES
    sdUsers,             \* history: who is between the open and the close of a file on the card
    gPc,                 \* per user of the card: "idle", "wait" (in xSemaphoreTake) or "op"
    booted               \* setup() / Application::init has finished and the tasks run

VARIABLES
    upGate,              \* history: what the last canUploadFiles() of the upload task read
    qRet,                \* history: the fault met by the last enqueue/dequeueHead and what it returned
    externalWakeTriggered,   \* main.cpp externalWakeTriggered
    externalWakeValid,       \* main.cpp externalWakeValid: -1 not determined, 0 invalid, 1 valid
    buttonTimer,         \* main.cpp buttonTimer: the time at which it expires, -1 while not active
    buttonPin,           \* digitalRead(BUTTON_PIN): "LOW" while the button is pressed
    setupPc,             \* setup(): "external", "wait", "boot", "done"
    startTime            \* setup_from_external: startTime

VARIABLES
    nvsBootSession,      \* Preferences "app"/"bootSession": the value kept in flash
    pastBoots,           \* history: bootSession and number of names handed out of each earlier boot
    boots                \* history: number of restarts

VARIABLES
    allocated,           \* history: the chunk buffers i2s.recordWAV has returned
    freed                \* history: how often free() was called on each of them

VARIABLES
    currentScanInterval,       \* WifiManager::currentScanInterval
    nextWifiScanTime,          \* WifiManager::nextWifiScanTime
    wifiConnectionTaskHandle,  \* WifiManager::wifiConnectionTaskHandle: "null" or "task"
    wcState,                   \* the WiFi connection task: "alive" or "deleted"
    wcPc,                      \* wifiConnectionTask: "loop" or "write" (interval read, not yet set)
    wcRead,                    \* wifiConnectionTask: the value getCurrentScanInterval() returned
    wcTime,                    \* wifiConnectionTask: currentTime of the pass
    connectionInProgress,      \* wifiConnectionTask: connectionInProgress
    connectionStartTime,       \* wifiConnectionTask: connectionStartTime
    scanFailures,              \* history: failed scans and attempts since the interval was MIN
    linkEvents,                \* history: WiFi events handled
    attempts,                  \* history: calls of connect()
    panicked                   \* the firmware aborted after using a stale task handle

qVars == <<sd, impl, enq, deq, lastPeek, hOp, sdMutex, dqPc, dqContent, pre, rebooted, crashes>>

capVars == <<recordingRequested, readyForDeepSleep, wasRecording, recPc, recChunk, capSeq,
             audioQueue, toggles, session, pushed>>

perVars == <<perPc, perChunk, perFile, audioFileIndex, bootSession, appended>>

netVars == <<wifiConnected, backendReachable, now, nextBackendCheckTime,
             currentBackendInterval, httpMutex>>

upVars == <<upState, upPc, nextFile, httpResponseCode, upContent, uploadTaskHandle,
            consecutiveUploadFailures, shouldRestartReachabilityTask, uploadMutex,
            uploadInProgress, uploaded, failuresInRow>>

rtVars == <<rt, reachabilityTaskHandle>>

backVars == <<netVars, upVars, rtVars>>

pwrVars == <<asleep, dsPc>>

logVars == <<logQueue, lfPc, lfHeld>>

guardVars == <<sdUsers, gPc, booted>>

wifiVars == <<currentScanInterval, nextWifiScanTime, wifiConnectionTaskHandle, wcState, wcPc,
              wcRead, wcTime, connectionInProgress, connectionStartTime, scanFailures, linkEvents,
              attempts, panicked>>

memVars == <<allocated, freed>>

wakeVars == <<externalWakeTriggered, externalWakeValid, buttonTimer, buttonPin, setupPc,
              startTime>>

bootVars == <<nvsBootSession, pastBoots, boots>>

auxVars == <<upGate, qRet, wakeVars, bootVars>>

extVars == <<pwrVars, logVars, guardVars, wifiVars, memVars, auxVars>>

\* the variables above without those of the power part, of the log part, of both, of
\* the storage guard part, of the link part
notPwr == <<logVars, guardVars, wifiVars, memVars, auxVars>>
notLog == <<pwrVars, guardVars, wifiVars, memVars, auxVars>>
notPwrLog == <<guardVars, wifiVars, memVars, auxVars>>
notGuard == <<pwrVars, logVars, wifiVars, memVars, auxVars>>
notWifi == <<pwrVars, logVars, guardVars, memVars, auxVars>>
notMem == <<pwrVars, logVars, guardVars, wifiVars, auxVars>>
notAux == <<pwrVars, logVars, guardVars, wifiVars, memVars>>

sysVars == <<capVars, perVars, wavFilesAvailable, backVars, extVars>>

vars == <<qVars, sysVars>>

-----------------------------------------------------------------------------
(* Bounds *)

MaxEnq == 3          \* enqueues performed by the sequential queue client
MaxCrashes == 1      \* resets injected while dequeueHead runs
MaxToggles == 4      \* button toggles of recordingRequested
MaxCaptures == 3     \* Start/Middle chunks the capture task begins
MaxRT == 2           \* reachability tasks created
MaxNow == 5000       \* milliseconds the clock advances
MaxClock == 650000   \* milliseconds the clock advances while the link is searched
MaxAttempts == 2     \* connection attempts the connection task starts
MaxLinkEvents == 2   \* WiFi events (got IP, disconnected) handled
Backlog == 9         \* chunks in the bounded queue when the observation begins
MaxBuffers == 2      \* chunks the capture task begins after that
MaxChunks == 2       \* chunks handed to persistence while the uploader is observed

-----------------------------------------------------------------------------
(* Arduino String / Stream primitives *)

NL == "\n"
CR == "\r"
EmptyStr == << >>

RECURSIVE IndexFrom(_, _, _)
\* String::indexOf(c, from): 0-based position of the first c at or after from, -1 if none
IndexFrom(s, c, from) ==
    IF from >= Len(s) THEN -1
    ELSE IF s[from + 1] = c THEN from
    ELSE IndexFrom(s, c, from + 1)

indexOf(s, c) == IndexFrom(s, c, 0)

\* String::substring(from, to): characters from .. to-1 (0-based)
substring(s, from, to) == SubSeq(s, from + 1, to)

\* String::substring(from): characters from .. end
substringFrom(s, from) == SubSeq(s, from + 1, Len(s))

isEmpty(s) == Len(s) = 0

\* Print::println(s): the string followed by "\r\n"
println(s) == s \o <<CR, NL>>

IsSpace(c) == c \in {CR, NL, " ", "\t"}

RECURSIVE TrimLeft(_)
TrimLeft(s) == IF s # << >> /\ IsSpace(Head(s)) THEN TrimLeft(Tail(s)) ELSE s

RECURSIVE TrimRight(_)
TrimRight(s) ==
    IF s # << >> /\ IsSpace(s[Len(s)]) THEN TrimRight(SubSeq(s, 1, Len(s) - 1)) ELSE s

\* String::trim(): strips leading and trailing whitespace
trim(s) == TrimRight(TrimLeft(s))

\* Stream::readStringUntil(c) applied to the unread rest of a file:
\* the characters before the first c; the terminator is consumed and dropped
readStringUntil(rest, c) ==
    LET i == indexOf(rest, c)
    IN  IF i = -1 THEN [str |-> rest, rest |-> << >>]
        ELSE [str |-> substring(rest, 0, i), rest |-> substringFrom(rest, i + 1)]

-----------------------------------------------------------------------------
(* SD card primitives *)

UPLOAD_QUEUE_FILE == <<"/upload_queue.txt">>
UPLOAD_QUEUE_TEMP == <<"/upload_queue.tmp">>

NoFiles == [f \in {} |-> << >>]

SDexists(fs, path) == path \in DOMAIN fs

\* SD.open(path, FILE_WRITE) + print(content) + close: create or truncate, then write
SDwrite(fs, path, content) ==
    [f \in (DOMAIN fs) \cup {path} |-> IF f = path THEN content ELSE fs[f]]

\* SD.open(path, FILE_APPEND) + print(content) + close: create if missing, write at the end
SDappend(fs, path, content) ==
    [f \in (DOMAIN fs) \cup {path} |->
        IF f = path THEN (IF path \in DOMAIN fs THEN fs[path] ELSE << >>) \o content
        ELSE fs[f]]

SDremove(fs, path) == [f \in (DOMAIN fs) \ {path} |-> fs[f]]

\* SD.rename(from, to)
SDrename(fs, from, to) ==
    IF from \notin DOMAIN fs THEN fs
    ELSE [f \in ((DOMAIN fs) \ {from}) \cup {to} |-> IF f = to THEN fs[from] ELSE fs[f]]

-----------------------------------------------------------------------------
(* FileSystem.cpp: file primitives, each run under its own SDLockGuard *)

\* FileSystem::readFile: "" when the file does not exist
readFile(fs, path) == IF SDexists(fs, path) THEN fs[path] ELSE EmptyStr

\* FileSystem::overwriteFile
overwriteFile(fs, path, content) == SDwrite(fs, path, content)

\* FileSystem::addToFile
addToFile(fs, path, content) == SDappend(fs, path, content)

\* FileSystem::deleteFile: a missing file counts as deleted
deleteFile(fs, path) == IF SDexists(fs, path) THEN SDremove(fs, path) ELSE fs

-----------------------------------------------------------------------------
(* FileSystem.cpp: the durable upload queue *)

\* FileSystem::addToUploadQueue: rejects the empty name, else appends name + "\n"
addToUploadQueue(fs, filename) ==
    IF Len(filename) = 0 THEN [ok |-> FALSE, fs |-> fs]
    ELSE [ok |-> TRUE, fs |-> addToFile(fs, UPLOAD_QUEUE_FILE, filename \o <<NL>>)]

\* FileSystem::getNextUploadFile: the first line of the queue file
getNextUploadFile(fs) ==
    LET content == readFile(fs, UPLOAD_QUEUE_FILE)
        newlinePos == indexOf(content, NL)
    IN  IF isEmpty(content) THEN EmptyStr
        ELSE IF newlinePos = -1 THEN content
        ELSE substring(content, 0, newlinePos)

\* a plausible slip: the newline that ends the head is kept
RemainingKeepsNewline(content) == substringFrom(content, indexOf(content, NL))

\* what FileSystem::removeFirstFromUploadQueue writes back, from the content it read
RemainingAfterHead(content) == substringFrom(content, indexOf(content, NL) + 1)

\* FileSystem::removeFirstFromUploadQueue as one uninterrupted call
removeFirstFromUploadQueue(fs) ==
    LET content == readFile(fs, UPLOAD_QUEUE_FILE)
    IN  IF isEmpty(content) THEN [ok |-> FALSE, fs |-> fs]
        ELSE IF indexOf(content, NL) = -1
             THEN [ok |-> TRUE, fs |-> deleteFile(fs, UPLOAD_QUEUE_FILE)]
        ELSE [ok |-> TRUE,
              fs |-> overwriteFile(fs, UPLOAD_QUEUE_FILE, RemainingAfterHead(content))]

\* FileSystem::isUploadQueueEmpty
isUploadQueueEmpty(fs) == isEmpty(readFile(fs, UPLOAD_QUEUE_FILE))

-----------------------------------------------------------------------------
(* main.cpp: the durable upload queue of the single-file firmware *)

\* addToUploadQueue (main.cpp): println(filename) at the end of the queue file
main_addToUploadQueue(fs, filename) ==
    [ok |-> TRUE, fs |-> SDappend(fs, UPLOAD_QUEUE_FILE, println(filename))]

\* getNextUploadFile (main.cpp): readStringUntil('\n') then trim()
main_getNextUploadFile(fs) ==
    IF ~SDexists(fs, UPLOAD_QUEUE_FILE) THEN EmptyStr
    ELSE IF Len(fs[UPLOAD_QUEUE_FILE]) = 0 THEN EmptyStr
    ELSE trim(readStringUntil(fs[UPLOAD_QUEUE_FILE], NL).str)

RECURSIVE CopyLines(_, _)
\* the copy loop of removeFirstFromUploadQueue (main.cpp): every line that is
\* still unread goes to the temporary file with println
CopyLines(rest, out) ==
    IF Len(rest) = 0 THEN out
    ELSE LET r == readStringUntil(rest, NL)
         IN  CopyLines(r.rest, out \o println(r.str))

\* content of the temporary file once the copy loop has finished
main_TempContent(content) ==
    IF Len(content) = 0 THEN EmptyStr
    ELSE CopyLines(readStringUntil(content, NL).rest, EmptyStr)

\* removeFirstFromUploadQueue (main.cpp) as one uninterrupted call
main_removeFirstFromUploadQueue(fs) ==
    IF ~SDexists(fs, UPLOAD_QUEUE_FILE) THEN [ok |-> FALSE, fs |-> fs]
    ELSE LET withTemp == SDwrite(fs, UPLOAD_QUEUE_TEMP, main_TempContent(fs[UPLOAD_QUEUE_FILE]))
             removed  == SDremove(withTemp, UPLOAD_QUEUE_FILE)
         IN  [ok |-> TRUE, fs |-> SDrename(removed, UPLOAD_QUEUE_TEMP, UPLOAD_QUEUE_FILE)]

-----------------------------------------------------------------------------
(* The queue interface of section 4.2, over either implementation *)

Impls == {"FileSystem", "main"}

enqueue(fs, p) ==
    IF impl = "FileSystem" THEN addToUploadQueue(fs, p) ELSE main_addToUploadQueue(fs, p)

RECURSIVE LastLine(_)
\* the last complete line of a queue file
LastLine(content) ==
    LET r == readStringUntil(content, NL)
    IN  IF Len(r.rest) = 0 THEN trim(r.str) ELSE LastLine(r.rest)

\* a plausible slip: the newest entry is returned instead of the oldest
peekNewest(fs) == LastLine(readFile(fs, UPLOAD_QUEUE_FILE))

peekHead(fs) ==
    IF impl = "FileSystem" THEN getNextUploadFile(fs) ELSE main_getNextUploadFile(fs)

dequeueHead(fs) ==
    IF impl = "FileSystem" THEN removeFirstFromUploadQueue(fs)
    ELSE main_removeFirstFromUploadQueue(fs)

\* isEmpty(): FileSystem::isUploadQueueEmpty; main.cpp has no such function and
\* its uploader tests peekHead for the empty string
queueIsEmpty(fs) ==
    IF impl = "FileSystem" THEN isUploadQueueEmpty(fs) ELSE Len(main_getNextUploadFile(fs)) = 0

-----------------------------------------------------------------------------
(* Shared state, capture and persistence: the state after Application::init *)

START == "START"
MIDDLE == "MIDDLE"
END == "END"

AUDIO_QUEUE_SIZE == 10
LOG_QUEUE_SIZE == 20
RECORDINGS_DIR == "/recordings"

NoChunk == [type |-> "none", ts |-> 0, sess |-> 0]

CapBoot ==
    /\ recordingRequested = FALSE
    /\ readyForDeepSleep = FALSE
    /\ wasRecording = FALSE
    /\ recPc = "loop"
    /\ recChunk = NoChunk
    /\ capSeq = 0
    /\ audioQueue = << >>
    /\ toggles = 0
    /\ session = 0
    /\ pushed = << >>

PerBoot ==
    /\ perPc = "recv"
    /\ perChunk = NoChunk
    /\ perFile = EmptyStr
    /\ audioFileIndex = 0
    /\ bootSession = 1
    /\ appended = << >>

MIN_SCAN_INTERVAL == 5000
MAX_SCAN_INTERVAL == 600000
RECHECK_INTERVAL == 600000
MAX_CONSECUTIVE_UPLOAD_FAILURES == 5

RTIds == 1..MaxRT

\* currentTime is the local of one pass of the loop: it is 0 between passes
NoTask == [state |-> "none", pc |-> "loop", currentTime |-> 0, lastSuccessfulCheck |-> 0]

\* a task that xTaskCreatePinnedToCore has just created from backendReachabilityTaskFunction
NewTask == [state |-> "alive", pc |-> "loop", currentTime |-> 0, lastSuccessfulCheck |-> 0]

\* BackendClient::init and the statics of BackendClient.cpp
NetBoot ==
    /\ wifiConnected = FALSE
    /\ backendReachable = FALSE
    /\ now = 0
    /\ nextBackendCheckTime = 0
    /\ currentBackendInterval = MIN_SCAN_INTERVAL
    /\ httpMutex = "free"

\* Application::init has called BackendClient::startUploadTask
UpBoot ==
    /\ upState = "alive"
    /\ upPc = "check"
    /\ nextFile = EmptyStr
    /\ httpResponseCode = 0
    /\ upContent = EmptyStr
    /\ uploadTaskHandle = "task"
    /\ consecutiveUploadFailures = 0
    /\ shouldRestartReachabilityTask = FALSE
    /\ uploadMutex = "free"
    /\ uploadInProgress = FALSE
    /\ uploaded = << >>
    /\ failuresInRow = 0

\* Application::init has called BackendClient::startReachabilityTask
RtBoot ==
    /\ rt = [i \in RTIds |-> IF i = 1 THEN NewTask ELSE NoTask]
    /\ reachabilityTaskHandle = 1

\* Application::init has created deepSleepTask, which starts with its 3 s delay
PwrBoot ==
    /\ asleep = FALSE
    /\ dsPc = "delay"

\* LogManager::startLogTask has created logFlushTask; the log queue is empty
LogBoot ==
    /\ logQueue = 0
    /\ lfPc = "poll"
    /\ lfHeld = 0

\* the code that opens files on the card: setup() or Application::init, and the tasks
SETUP == "setup"
SdTasks == {"audioFile", "uploader", "logFlush", "persistTime", "deepSleep", "wifiEvent"}

\* the tasks run and nobody is using the card
GuardBoot ==
    /\ sdUsers = {}
    /\ gPc = [t \in SdTasks \cup {SETUP} |-> "idle"]
    /\ booted = TRUE

\* WifiManager::init and startConnectionTask: the connection task runs, the link is down
WifiBoot ==
    /\ currentScanInterval = MIN_SCAN_INTERVAL
    /\ nextWifiScanTime = 0
    /\ wifiConnectionTaskHandle = "task"
    /\ wcState = "alive"
    /\ wcPc = "loop"
    /\ wcRead = 0
    /\ wcTime = 0
    /\ connectionInProgress = FALSE
    /\ connectionStartTime = 0
    /\ scanFailures = 0
    /\ linkEvents = 0
    /\ attempts = 0
    /\ panicked = FALSE

\* the state WiFiGotIP leaves: the connection task is deleted
WifiUp ==
    /\ currentScanInterval = MIN_SCAN_INTERVAL
    /\ nextWifiScanTime = 0
    /\ wifiConnectionTaskHandle = "null"
    /\ wcState = "deleted"
    /\ wcPc = "loop"
    /\ wcRead = 0
    /\ wcTime = 0
    /\ connectionInProgress = FALSE
    /\ connectionStartTime = 0
    /\ scanFailures = 0
    /\ linkEvents = 0
    /\ attempts = 0
    /\ panicked = FALSE

\* no chunk buffer exists
MemBoot ==
    /\ allocated = {}
    /\ freed = << >>

\* the upload task has not evaluated canUploadFiles() yet
NoGate == [wifi |-> FALSE, backend |-> FALSE, files |-> FALSE, battery |-> FALSE,
           canUpload |-> FALSE]

NoRet == [fault |-> "none", ok |-> TRUE, faults |-> 0]

\* main.cpp lines 99-107 and setup_from_boot finished: no wake is being validated
WakeBoot ==
    /\ externalWakeTriggered = FALSE
    /\ externalWakeValid = -1
    /\ buttonTimer = -1
    /\ buttonPin = "HIGH"
    /\ setupPc = "done"
    /\ startTime = 0

\* Application::init of the first boot has stored bootSession 1
NvsBoot ==
    /\ nvsBootSession = 1
    /\ pastBoots = {}
    /\ boots = 0

AuxBoot ==
    /\ upGate = NoGate
    /\ qRet = NoRet
    /\ WakeBoot
    /\ NvsBoot

ExtBoot ==
    /\ AuxBoot
    /\ PwrBoot
    /\ LogBoot
    /\ GuardBoot
    /\ WifiBoot
    /\ MemBoot

SysBoot ==
    /\ CapBoot
    /\ PerBoot
    /\ wavFilesAvailable = FALSE
    /\ NetBoot
    /\ UpBoot
    /\ RtBoot
    /\ ExtBoot

-----------------------------------------------------------------------------
(* A sequential client of the durable queue *)

\* no step-by-step dequeueHead is running, nobody holds the storage guard
StepIdle ==
    /\ sdMutex = "free"
    /\ dqPc = "idle"
    /\ dqContent = EmptyStr
    /\ pre = << >>
    /\ rebooted = FALSE
    /\ crashes = 0

stepVars == <<sdMutex, dqPc, dqContent, pre, rebooted, crashes>>

QPaths == {<<"/", "a">>, <<"/", "b">>, <<"/", "c">>}

\* the queue file as the firmware finds it at start-up: created empty by
\* AudioManager::init, or (main.cpp) not there before the first append
FifoInit ==
    /\ impl \in Impls
    /\ sd = IF impl = "FileSystem" THEN SDwrite(NoFiles, UPLOAD_QUEUE_FILE, EmptyStr) ELSE NoFiles
    /\ enq = << >>
    /\ deq = 0
    /\ lastPeek = EmptyStr
    /\ hOp = "none"
    /\ StepIdle
    /\ SysBoot

QEnqueue ==
    \E p \in QPaths :
        LET r == enqueue(sd, p)
        IN  /\ Len(enq) < MaxEnq
            /\ sd' = r.fs
            /\ enq' = IF r.ok THEN Append(enq, p) ELSE enq
            /\ hOp' = "enqueue"
            /\ UNCHANGED <<impl, deq, lastPeek, stepVars, sysVars>>

\* one call of peekHead; guards: whether the call gets the storage guard within
\* its timeout and opens the queue file (readFile returns "" when it does not,
\* getNextUploadFile of main.cpp leaves nextFile "")
QPeekWhen(guards) ==
    \E taken \in guards :
        /\ lastPeek' = IF taken THEN peekHead(sd) ELSE EmptyStr
        /\ hOp' = IF taken THEN "peek" ELSE "peekTimeout"
        /\ UNCHANGED <<sd, impl, enq, deq, stepVars, sysVars>>

QPeek == QPeekWhen({TRUE})

QDequeue ==
    LET r == dequeueHead(sd)
    IN  /\ sd' = r.fs
        /\ deq' = IF deq < Len(enq) THEN deq + 1 ELSE deq
        /\ hOp' = "dequeue"
        /\ UNCHANGED <<impl, enq, lastPeek, stepVars, sysVars>>

FifoNext == QEnqueue \/ QPeek \/ QDequeue

SpecFifo == FifoInit /\ [][FifoNext]_vars

\* the reference FIFO: what was enqueued and not yet dequeued
Pending == SubSeq(enq, deq + 1, Len(enq))

HeadOrNone(q) == IF q = << >> THEN EmptyStr ELSE Head(q)

\* C1: peekHead returns the oldest path that was enqueued and not yet dequeued,
\* and once as many heads were dequeued as paths were enqueued the queue is
\* empty and peekHead returns none
C1_FifoOrder ==
    /\ peekHead(sd) = HeadOrNone(Pending)
    /\ queueIsEmpty(sd) <=> (Pending = << >>)
    /\ (hOp = "peek" => lastPeek = HeadOrNone(Pending))

\* three different paths went in, three heads came out, the last dequeue ran
\* on a queue of exactly one entry
C1_Witness ==
    /\ Len(enq) = 3
    /\ Cardinality({enq[i] : i \in 1..Len(enq)}) = 3
    /\ deq = 3
    /\ hOp = "dequeue"
    /\ queueIsEmpty(sd)

-----------------------------------------------------------------------------
(* dequeueHead step by step: one action per SD card operation *)

RECURSIVE Drain(_)
\* the entries a restarted uploader finds: peekHead / dequeueHead until empty
Drain(fs) ==
    IF queueIsEmpty(fs) THEN << >>
    ELSE <<peekHead(fs)>> \o Drain(dequeueHead(fs).fs)

Prefixes(s) == {SubSeq(s, 1, n) : n \in 0..Len(s)}

\* FileSystem::removeFirstFromUploadQueue, line 354: readFile under its own SDLockGuard
FsRead ==
    /\ impl = "FileSystem"
    /\ dqPc = "idle"
    /\ sdMutex = "free"
    /\ LET content == readFile(sd, UPLOAD_QUEUE_FILE)
       IN  /\ dqContent' = content
           /\ dqPc' = IF isEmpty(content) THEN "idle" ELSE "fs_read"
    /\ pre' = Drain(sd)
    /\ rebooted' = FALSE
    /\ hOp' = "dequeue"
    /\ UNCHANGED <<sd, impl, enq, deq, lastPeek, sdMutex, crashes, sysVars>>

\* lines 361-374: without a newline deleteFile, else overwriteFile takes the
\* guard and SD.open(FILE_WRITE) truncates the queue file
FsOpen ==
    /\ impl = "FileSystem"
    /\ dqPc = "fs_read"
    /\ sdMutex = "free"
    /\ IF indexOf(dqContent, NL) = -1
       THEN /\ sd' = deleteFile(sd, UPLOAD_QUEUE_FILE)
            /\ dqPc' = "idle"
            /\ dqContent' = EmptyStr
            /\ deq' = deq + 1
            /\ UNCHANGED sdMutex
       ELSE /\ sd' = SDwrite(sd, UPLOAD_QUEUE_FILE, EmptyStr)
            /\ dqPc' = "fs_opened"
            /\ sdMutex' = "uploader"
            /\ UNCHANGED <<dqContent, deq>>
    /\ UNCHANGED <<impl, enq, lastPeek, hOp, pre, rebooted, crashes, sysVars>>

\* overwriteFile lines 216-217: print(remaining), close; the guard is released
FsWrite ==
    /\ impl = "FileSystem"
    /\ dqPc = "fs_opened"
    /\ sd' = SDwrite(sd, UPLOAD_QUEUE_FILE, RemainingAfterHead(dqContent))
    /\ sdMutex' = "free"
    /\ dqPc' = "idle"
    /\ dqContent' = EmptyStr
    /\ deq' = deq + 1
    /\ UNCHANGED <<impl, enq, lastPeek, hOp, pre, rebooted, crashes, sysVars>>

\* removeFirstFromUploadQueue (main.cpp) lines 584-615: take sdMutex, open the
\* queue file, create the temporary file, read and skip the first line
MBegin ==
    /\ impl = "main"
    /\ dqPc = "idle"
    /\ sdMutex = "free"
    /\ pre' = Drain(sd)
    /\ rebooted' = FALSE
    /\ hOp' = "dequeue"
    /\ IF ~SDexists(sd, UPLOAD_QUEUE_FILE)
       THEN UNCHANGED <<sd, sdMutex, dqPc, dqContent>>
       ELSE /\ sd' = SDwrite(sd, UPLOAD_QUEUE_TEMP, EmptyStr)
            /\ sdMutex' = "uploader"
            /\ dqPc' = "m_copy"
            /\ dqContent' = readStringUntil(sd[UPLOAD_QUEUE_FILE], NL).rest
    /\ UNCHANGED <<impl, enq, deq, lastPeek, crashes, sysVars>>

\* lines 608-618: one more line goes to the temporary file
MCopyLine ==
    /\ impl = "main"
    /\ dqPc = "m_copy"
    /\ Len(dqContent) > 0
    /\ LET r == readStringUntil(dqContent, NL)
       IN  /\ sd' = SDappend(sd, UPLOAD_QUEUE_TEMP, println(r.str))
           /\ dqContent' = r.rest
    /\ UNCHANGED <<impl, enq, deq, lastPeek, hOp, sdMutex, dqPc, pre, rebooted, crashes, sysVars>>

\* lines 620-624: both files closed, SD.remove(UPLOAD_QUEUE_FILE)
MRemove ==
    /\ impl = "main"
    /\ dqPc = "m_copy"
    /\ Len(dqContent) = 0
    /\ sd' = SDremove(sd, UPLOAD_QUEUE_FILE)
    /\ dqPc' = "m_removed"
    /\ UNCHANGED <<impl, enq, deq, lastPeek, hOp, sdMutex, dqContent, pre, rebooted, crashes, sysVars>>

\* lines 625-628: SD.rename(UPLOAD_QUEUE_TEMP, UPLOAD_QUEUE_FILE), sdMutex given
MRename ==
    /\ impl = "main"
    /\ dqPc = "m_removed"
    /\ sd' = SDrename(sd, UPLOAD_QUEUE_TEMP, UPLOAD_QUEUE_FILE)
    /\ sdMutex' = "free"
    /\ dqPc' = "idle"
    /\ deq' = IF pre = << >> THEN deq ELSE deq + 1
    /\ UNCHANGED <<impl, enq, lastPeek, hOp, dqContent, pre, rebooted, crashes, sysVars>>

\* what is on the card after power is lost: files are kept; a file whose
\* print() was under way holds some prefix of what was being written
CardAfterReset ==
    IF dqPc = "fs_opened"
    THEN {SDwrite(sd, UPLOAD_QUEUE_FILE, p) : p \in Prefixes(RemainingAfterHead(dqContent))}
    ELSE {sd}

\* the device resets while dequeueHead runs: RAM and the guard are lost
Reset ==
    /\ dqPc # "idle"
    /\ crashes < MaxCrashes
    /\ sd' \in CardAfterReset
    /\ sdMutex' = "free"
    /\ dqPc' = "idle"
    /\ dqContent' = EmptyStr
    /\ rebooted' = TRUE
    /\ crashes' = crashes + 1
    /\ hOp' = "reset"
    /\ UNCHANGED <<impl, enq, deq, lastPeek, pre, sysVars>>

\* enqueue between two dequeueHead calls
CEnqueue ==
    /\ dqPc = "idle"
    /\ QEnqueue
    /\ ~rebooted

DequeueSteps == FsRead \/ FsOpen \/ FsWrite \/ MBegin \/ MCopyLine \/ MRemove \/ MRename

CrashNext == CEnqueue \/ DequeueSteps \/ Reset

SpecCrash == FifoInit /\ [][CrashNext]_vars

\* C2: after a reset during dequeueHead the queue found on the card is the
\* queue from before the call, or that queue without its head
C2_CrashSafe ==
    rebooted => (Drain(sd) = pre \/ Drain(sd) = Tail(pre))

-----------------------------------------------------------------------------
(* enqueue by the persistence task while the uploader runs dequeueHead *)

\* FileSystem::addToFile lines 162-175 (main.cpp: addToUploadQueue under the
\* sdMutex audioFileTask holds): the append runs with the storage guard taken
REnqueue ==
    /\ sdMutex = "free"
    /\ QEnqueue

RaceNext == REnqueue \/ DequeueSteps

SpecRace == FifoInit /\ [][RaceNext]_vars

\* C3: whenever no dequeueHead is under way the queue holds exactly the paths
\* enqueued and not yet dequeued, in enqueue order
C3_NoLostEnqueue ==
    dqPc = "idle" => Drain(sd) = Pending

-----------------------------------------------------------------------------
(* Capture: AudioManager::recordAudioTask, and the button of main.cpp *)

\* main.cpp buttonTimerCallback, the branch taken once the device is awake
ButtonToggle ==
    /\ toggles < MaxToggles
    /\ toggles' = toggles + 1
    /\ readyForDeepSleep' = (readyForDeepSleep \/ recordingRequested)
    /\ recordingRequested' = ~recordingRequested
    /\ UNCHANGED <<extVars, wasRecording, recPc, recChunk, capSeq, audioQueue, session, pushed>>
    /\ UNCHANGED <<qVars, perVars, wavFilesAvailable, backVars>>

\* AudioManager::canRecord with the battery reading batteryOk
canRecord(batteryOk) == recordingRequested /\ batteryOk

\* one pass of the loop up to the call of recordWAV
RecDecideUpTo(batteryReadings, captures) ==
    /\ recPc = "loop"
    /\ \E batteryOk \in batteryReadings :
        /\ recordingRequested' = (recordingRequested /\ batteryOk)
        /\ IF canRecord(batteryOk)
           THEN /\ capSeq < captures
                /\ session' = IF wasRecording THEN session ELSE session + 1
                /\ recChunk' = [type |-> IF wasRecording THEN MIDDLE ELSE START,
                                ts |-> capSeq + 1, sess |-> session']
                /\ capSeq' = capSeq + 1
                /\ wasRecording' = TRUE
                /\ recPc' = "record"
           ELSE IF wasRecording
           THEN /\ recChunk' = [type |-> END, ts |-> capSeq + 1, sess |-> session]
                /\ capSeq' = capSeq + 1
                /\ recPc' = "record"
                /\ UNCHANGED <<wasRecording, session>>
           ELSE UNCHANGED <<recChunk, capSeq, wasRecording, recPc, session>>
    /\ UNCHANGED <<extVars, readyForDeepSleep, audioQueue, toggles, pushed>>
    /\ UNCHANGED <<qVars, perVars, wavFilesAvailable, backVars>>

RecDecide(batteryReadings) == RecDecideUpTo(batteryReadings, MaxCaptures)

\* xQueueSend with a timeout: the chunk is queued if there is room, dropped if not
\* free(audio.buffer): one more call of free() on the buffer
freeBuffer(calls, buffer) ==
    IF buffer \in DOMAIN calls
    THEN [calls EXCEPT ![buffer] = @ + 1]
    ELSE [b \in DOMAIN calls \cup {buffer} |-> IF b = buffer THEN 1 ELSE calls[b]]

\* the free(audio.buffer) that ends the pass of audioFileTask
freeSkipped(calls, buffer) == calls
freeAfterWrite(calls, buffer) == freeBuffer(calls, buffer)

xQueueSendUnbounded(queue, item) == [ok |-> TRUE, queue |-> Append(queue, item)]
xQueueSend(queue, item) ==
    IF Len(queue) < AUDIO_QUEUE_SIZE
    THEN [ok |-> TRUE, queue |-> Append(queue, item)]
    ELSE [ok |-> FALSE, queue |-> queue]

\* recordWAV returns (captured or not) and the rest of the pass
RecCaptureSend(captureResults) ==
    /\ recPc = "record"
    /\ \E captured \in captureResults :
        LET sent == xQueueSend(audioQueue, recChunk) IN
        /\ audioQueue' = IF captured THEN sent.queue ELSE audioQueue
        /\ pushed' = IF captured /\ sent.ok THEN Append(pushed, recChunk) ELSE pushed
        /\ allocated' = IF captured THEN allocated \cup {recChunk.ts} ELSE allocated
        /\ freed' = IF captured /\ ~sent.ok THEN freeBuffer(freed, recChunk.ts) ELSE freed
    /\ wasRecording' = IF recChunk.type = END THEN FALSE ELSE wasRecording
    /\ recPc' = "loop"
    /\ recChunk' = NoChunk
    /\ UNCHANGED <<notMem, recordingRequested, readyForDeepSleep, capSeq, toggles, session>>
    /\ UNCHANGED <<qVars, perVars, wavFilesAvailable, backVars>>

-----------------------------------------------------------------------------
(* Persistence: AudioManager::audioFileTask *)

Suffix(type) ==
    IF type = START THEN "_start" ELSE IF type = END THEN "_end" ELSE "_middle"

\* fileName = RECORDINGS_DIR/<boot>_<index>_<timestamp>_<type>.wav, token by token
FileName(boot, index, ts, type) ==
    <<RECORDINGS_DIR, "/", ToString(boot), "_", ToString(index), "_", ToString(ts),
      Suffix(type), ".wav">>

\* the bytes of a chunk
WavData(chunk) == <<"wav", ToString(chunk.ts)>>

\* xQueueReceive on a queue that is not empty
xQueueReceiveLast(queue) ==
    [item |-> queue[Len(queue)], queue |-> SubSeq(queue, 1, Len(queue) - 1)]

xQueueReceive(queue) == [item |-> Head(queue), queue |-> Tail(queue)]

PerReceived(chunk) ==
    /\ perChunk' = chunk
    /\ perFile' = FileName(bootSession, audioFileIndex, chunk.ts, chunk.type)
    /\ audioFileIndex' = audioFileIndex + 1
    /\ perPc' = "write"

PerRecv ==
    /\ perPc = "recv"
    /\ audioQueue # << >>
    /\ audioQueue' = xQueueReceive(audioQueue).queue
    /\ PerReceived(xQueueReceive(audioQueue).item)
    /\ UNCHANGED extVars
    /\ UNCHANGED <<recordingRequested, readyForDeepSleep, wasRecording, recPc, recChunk,
                   capSeq, toggles, session, pushed>>
    /\ UNCHANGED <<qVars, bootSession, appended, wavFilesAvailable, backVars>>

\* overwriteFile(fileName, data), then setWavFilesAvailable(true) if it was written
PerWrite(writeResults) ==
    /\ perPc = "write"
    /\ sdMutex = "free"
    /\ \E written \in writeResults :
        IF written
        THEN /\ sd' = overwriteFile(sd, perFile, WavData(perChunk))
             /\ wavFilesAvailable' = TRUE
             /\ perPc' = "enq"
             /\ UNCHANGED <<perChunk, perFile, freed>>
        ELSE /\ perPc' = "recv"
             /\ perChunk' = NoChunk
             /\ perFile' = EmptyStr
             /\ freed' = freeAfterWrite(freed, perChunk.ts)
             /\ UNCHANGED <<sd, wavFilesAvailable>>
    /\ UNCHANGED <<notMem, allocated, impl, enq, deq, lastPeek, hOp, stepVars>>
    /\ UNCHANGED <<capVars, audioFileIndex, bootSession, appended, backVars>>

\* addToUploadQueue(fileName), then the buffer is freed; a call that returns
\* false (guard not acquired, file not opened) is logged and nothing else
PerEnqWhen(enqResults) ==
    /\ perPc = "enq"
    /\ sdMutex = "free"
    /\ \E added \in enqResults :
        IF added
        THEN /\ sd' = addToUploadQueue(sd, perFile).fs
             /\ appended' = Append(appended, [path |-> perFile, chunk |-> perChunk])
        ELSE UNCHANGED <<sd, appended>>
    /\ perPc' = "recv"
    /\ perChunk' = NoChunk
    /\ perFile' = EmptyStr
    /\ freed' = freeBuffer(freed, perChunk.ts)
    /\ UNCHANGED <<notMem, allocated, impl, enq, deq, lastPeek, hOp, stepVars>>
    /\ UNCHANGED <<capVars, audioFileIndex, bootSession, wavFilesAvailable, backVars>>

PerEnq == PerEnqWhen({TRUE})

-----------------------------------------------------------------------------
(* Capture and persistence running together *)

\* the state after Application::init: AudioManager::init has created the queue file
SysInit ==
    /\ impl = "FileSystem"
    /\ sd = SDwrite(NoFiles, UPLOAD_QUEUE_FILE, EmptyStr)
    /\ enq = << >>
    /\ deq = 0
    /\ lastPeek = EmptyStr
    /\ hOp = "none"
    /\ StepIdle

CaptureInit == SysInit /\ SysBoot

CaptureNext ==
    \/ ButtonToggle
    \/ RecDecide(BOOLEAN)
    \/ RecCaptureSend(BOOLEAN)
    \/ PerRecv
    \/ PerWrite(BOOLEAN)
    \/ PerEnq

SpecCapture == CaptureInit /\ [][CaptureNext]_vars

\* the types of a sequence of chunks
Types(chunks) == [i \in 1..Len(chunks) |-> chunks[i].type]

\* TRUE iff every chunk of the stream lies in a session that a Start opened and that
\* no End has closed yet; open tells whether a session is open before the stream
RECURSIVE Bracketed(_, _)
Bracketed(types, open) ==
    IF types = << >> THEN TRUE
    ELSE IF Head(types) = START THEN ~open /\ Bracketed(Tail(types), TRUE)
    ELSE IF Head(types) = END THEN open /\ Bracketed(Tail(types), FALSE)
    ELSE open /\ Bracketed(Tail(types), open)

\* C9: in the chunks pushed to the bounded queue every session is bracketed: a Start
\* is never followed by another Start without an End between them, and no Middle or
\* End is pushed without a Start before it in the same session.
C9_Bracketing == Bracketed(Types(pushed), FALSE)

Rank(type) == IF type = START THEN 0 ELSE IF type = END THEN 2 ELSE 1

\* the number a decimal token of a path stands for
ToNumber(token) == CHOOSE n \in 0..(2 * MaxCaptures + 1) : ToString(n) = token

PathIndex(path) == ToNumber(path[5])

-----------------------------------------------------------------------------
(* The uploader: BackendClient::fileUploadTaskFunction *)

qRest == <<impl, enq, deq, lastPeek, hOp, stepVars>>

\* BackendClient::canUploadFiles with the battery reading batteryOk
canUploadAnyBattery(batteryOk) == wifiConnected /\ backendReachable /\ wavFilesAvailable
canUploadFiles(batteryOk) ==
    wifiConnected /\ backendReachable /\ wavFilesAvailable /\ batteryOk

\* BackendClient::startReachabilityTask: the task is created unless creation fails
startReachabilityTask(tasks, handle) ==
    LET free == {i \in RTIds : tasks[i].state = "none"}
        id == CHOOSE i \in free : \A j \in free : i <= j
    IN  IF free = {}
        THEN [ok |-> FALSE, tasks |-> tasks, handle |-> handle]
        ELSE [ok |-> TRUE, tasks |-> [tasks EXCEPT ![id] = NewTask], handle |-> id]

\* the end of a pass of the loop: restart the reachability task and delete self if
\* shouldRestartReachabilityTask is set, else vTaskDelay(UPLOAD_CHECK_INTERVAL)
UpTail ==
    IF shouldRestartReachabilityTask
    THEN /\ rt' = startReachabilityTask(rt, reachabilityTaskHandle).tasks
         /\ reachabilityTaskHandle' = startReachabilityTask(rt, reachabilityTaskHandle).handle
         /\ shouldRestartReachabilityTask' = FALSE
         /\ upState' = "deleted"
         /\ upPc' = "check"
    ELSE /\ upPc' = "check"
         /\ UNCHANGED <<rt, reachabilityTaskHandle, shouldRestartReachabilityTask, upState>>

\* canUploadFiles() and xSemaphoreTake(uploadMutex, 0)
UpCheck(batteryReadings) ==
    /\ upState = "alive"
    /\ upPc = "check"
    /\ \E batteryOk \in batteryReadings :
        /\ upGate' = [wifi |-> wifiConnected, backend |-> backendReachable,
                      files |-> wavFilesAvailable, battery |-> batteryOk,
                      canUpload |-> canUploadFiles(batteryOk)]
        /\ IF canUploadFiles(batteryOk) /\ uploadMutex = "free"
           THEN /\ uploadMutex' = "uploader"
                /\ uploadInProgress' = TRUE
                /\ UNCHANGED httpResponseCode
                /\ upPc' = "peek"
                /\ UNCHANGED <<rt, reachabilityTaskHandle, shouldRestartReachabilityTask,
                               upState>>
           ELSE /\ UpTail
                /\ UNCHANGED <<uploadMutex, uploadInProgress>>
    /\ UNCHANGED <<notAux, qRet, wakeVars, bootVars, qVars, capVars, perVars, wavFilesAvailable, netVars>>
    /\ UNCHANGED <<nextFile, httpResponseCode, upContent, uploadTaskHandle, consecutiveUploadFailures,
                   uploaded, failuresInRow>>

\* nextFile = app->getNextUploadFile()
UpPeek ==
    /\ upState = "alive"
    /\ upPc = "peek"
    /\ sdMutex = "free"
    /\ nextFile' = getNextUploadFile(sd)
    /\ upPc' = IF isEmpty(nextFile') THEN "empty" ELSE "read"
    /\ UNCHANGED <<extVars, qVars, capVars, perVars, wavFilesAvailable, netVars, rtVars>>
    /\ UNCHANGED <<upState, httpResponseCode, upContent, uploadTaskHandle,
                   consecutiveUploadFailures, shouldRestartReachabilityTask, uploadMutex,
                   uploadInProgress, uploaded, failuresInRow>>

\* no files in queue: app->setWavFilesAvailable(false)
UpEmpty ==
    /\ upState = "alive"
    /\ upPc = "empty"
    /\ wavFilesAvailable' = FALSE
    /\ upPc' = "unlock"
    /\ UNCHANGED <<extVars, qVars, capVars, perVars, netVars, rtVars>>
    /\ UNCHANGED <<upState, nextFile, httpResponseCode, upContent, uploadTaskHandle,
                   consecutiveUploadFailures, shouldRestartReachabilityTask, uploadMutex,
                   uploadInProgress, uploaded, failuresInRow>>

\* readFileToFixedBuffer: the whole file is read, or the read fails
readFileToFixedBuffer(fs, path, readable) ==
    IF SDexists(fs, path) /\ readable
    THEN [ok |-> TRUE, size |-> Len(fs[path])]
    ELSE [ok |-> FALSE, size |-> 0]

\* app->readFileToFixedBuffer(nextFile, ...), and the size test of uploadFileFromBuffer
UpRead(readResults) ==
    /\ upState = "alive"
    /\ upPc = "read"
    /\ sdMutex = "free"
    /\ \E readable \in readResults :
        LET r == readFileToFixedBuffer(sd, nextFile, readable)
        IN  upPc' = IF r.ok /\ r.size # 0 THEN "http" ELSE "incr"
    /\ UNCHANGED <<extVars, qVars, capVars, perVars, wavFilesAvailable, netVars, rtVars>>
    /\ UNCHANGED <<upState, nextFile, httpResponseCode, upContent, uploadTaskHandle,
                   consecutiveUploadFailures, shouldRestartReachabilityTask, uploadMutex,
                   uploadInProgress, uploaded, failuresInRow>>

\* uploadFileFromBuffer up to the request: httpMutex is taken, or the take times out
UpHttpTake ==
    /\ upState = "alive"
    /\ upPc = "http"
    /\ IF httpMutex = "free" /\ wifiConnected
       THEN httpMutex' = "uploader" /\ upPc' = "post"
       ELSE upPc' = "incr" /\ UNCHANGED httpMutex
    /\ UNCHANGED <<extVars, qVars, capVars, perVars, wavFilesAvailable, rtVars>>
    /\ UNCHANGED <<wifiConnected, backendReachable, now, nextBackendCheckTime,
                   currentBackendInterval>>
    /\ UNCHANGED <<upState, nextFile, httpResponseCode, upContent, uploadTaskHandle,
                   consecutiveUploadFailures, shouldRestartReachabilityTask, uploadMutex,
                   uploadInProgress, uploaded, failuresInRow>>

HTTP_CODE_OK == 200
HTTP_CODE_CREATED == 201

\* the responses of the backend; -1 is an error of the HTTP client
HttpCodes == {HTTP_CODE_OK, HTTP_CODE_CREATED, 500, -1}

UploadAccepted(code) == code > 0

UploadSucceeded(code) == code = HTTP_CODE_OK \/ code = HTTP_CODE_CREATED

\* client.sendRequest("POST", ...) returns and uploadFileFromBuffer finishes
UpPost(codes) ==
    /\ upState = "alive"
    /\ upPc = "post"
    /\ \E code \in codes :
        /\ httpResponseCode' = code
        /\ IF UploadSucceeded(code)
           THEN /\ uploaded' = Append(uploaded, nextFile)
                /\ failuresInRow' = 0
                /\ upPc' = "delete"
                /\ UNCHANGED <<backendReachable, nextBackendCheckTime>>
           ELSE /\ backendReachable' = FALSE
                /\ nextBackendCheckTime' = now
                /\ upPc' = "incr"
                /\ UNCHANGED <<uploaded, failuresInRow>>
    /\ httpMutex' = "free"
    /\ UNCHANGED <<extVars, qVars, capVars, perVars, wavFilesAvailable, rtVars>>
    /\ UNCHANGED <<wifiConnected, now, currentBackendInterval>>
    /\ UNCHANGED <<upState, nextFile, upContent, uploadTaskHandle,
                   consecutiveUploadFailures, shouldRestartReachabilityTask, uploadMutex,
                   uploadInProgress>>

\* app->deleteFile(nextFile)
UpDeleteWhen(deleteResults) ==
    /\ upState = "alive"
    /\ upPc = "delete"
    /\ sdMutex = "free"
    /\ \E deleted \in deleteResults :
          sd' = IF deleted THEN deleteFile(sd, nextFile) ELSE sd
    /\ upPc' = "rmRead"
    /\ UNCHANGED <<extVars, qRest, capVars, perVars, wavFilesAvailable, netVars, rtVars>>
    /\ UNCHANGED <<upState, nextFile, httpResponseCode, upContent, uploadTaskHandle,
                   consecutiveUploadFailures, shouldRestartReachabilityTask, uploadMutex,
                   uploadInProgress, uploaded, failuresInRow>>

UpDelete == UpDeleteWhen({TRUE})

\* removeFirstFromUploadQueue: content = readFile(UPLOAD_QUEUE_FILE); an empty queue
\* ends the call, and resetConsecutiveUploadFailures() follows
UpRmRead ==
    /\ upState = "alive"
    /\ upPc = "rmRead"
    /\ sdMutex = "free"
    /\ upContent' = readFile(sd, UPLOAD_QUEUE_FILE)
    /\ IF isEmpty(upContent')
       THEN consecutiveUploadFailures' = 0 /\ upPc' = "unlock"
       ELSE upPc' = "rmWrite" /\ UNCHANGED consecutiveUploadFailures
    /\ UNCHANGED <<extVars, qVars, capVars, perVars, wavFilesAvailable, netVars, rtVars>>
    /\ UNCHANGED <<upState, nextFile, httpResponseCode, uploadTaskHandle,
                   shouldRestartReachabilityTask, uploadMutex,
                   uploadInProgress, uploaded, failuresInRow>>

\* removeFirstFromUploadQueue: the queue file is deleted or overwritten with the
\* remaining content, and resetConsecutiveUploadFailures() follows
UpRmWrite ==
    /\ upState = "alive"
    /\ upPc = "rmWrite"
    /\ sdMutex = "free"
    /\ sd' = IF indexOf(upContent, NL) = -1
             THEN deleteFile(sd, UPLOAD_QUEUE_FILE)
             ELSE overwriteFile(sd, UPLOAD_QUEUE_FILE, RemainingAfterHead(upContent))
    /\ consecutiveUploadFailures' = 0
    /\ upPc' = "unlock"
    /\ UNCHANGED <<extVars, qRest, capVars, perVars, wavFilesAvailable, netVars, rtVars>>
    /\ UNCHANGED <<upState, nextFile, httpResponseCode, upContent, uploadTaskHandle,
                   shouldRestartReachabilityTask, uploadMutex,
                   uploadInProgress, uploaded, failuresInRow>>

\* BackendClient::incrementConsecutiveUploadFailures, called by the upload task:
\* vTaskDelete(uploadTaskHandle) deletes the caller, and nothing after it runs
UpIncr ==
    /\ upState = "alive"
    /\ upPc = "incr"
    /\ consecutiveUploadFailures' = consecutiveUploadFailures + 1
    /\ failuresInRow' = failuresInRow + 1
    /\ IF consecutiveUploadFailures' >= MAX_CONSECUTIVE_UPLOAD_FAILURES
       THEN /\ shouldRestartReachabilityTask' = TRUE
            /\ IF uploadTaskHandle # "null"
               THEN upState' = "deleted" /\ UNCHANGED upPc
               ELSE upPc' = "unlock" /\ UNCHANGED upState
       ELSE /\ upPc' = "unlock"
            /\ UNCHANGED <<shouldRestartReachabilityTask, upState>>
    /\ UNCHANGED <<extVars, qVars, capVars, perVars, wavFilesAvailable, netVars, rtVars>>
    /\ UNCHANGED <<nextFile, httpResponseCode, upContent, uploadTaskHandle, uploadMutex,
                   uploadInProgress, uploaded>>

\* app->setUploadInProgress(false); xSemaphoreGive(uploadMutex); the end of the pass,
\* where the locals nextFile, httpResponseCode and content go out of scope
UpUnlock ==
    /\ upState = "alive"
    /\ upPc = "unlock"
    /\ uploadInProgress' = FALSE
    /\ uploadMutex' = "free"
    /\ nextFile' = EmptyStr
    /\ httpResponseCode' = 0
    /\ upContent' = EmptyStr
    /\ UpTail
    /\ UNCHANGED <<extVars, qVars, capVars, perVars, wavFilesAvailable, netVars>>
    /\ UNCHANGED <<uploadTaskHandle, consecutiveUploadFailures, uploaded, failuresInRow>>

-----------------------------------------------------------------------------
(* The reachability controller: BackendClient::backendReachabilityTaskFunction *)

Min(a, b) == IF a <= b THEN a ELSE b

\* BackendClient::shouldStartUploadTask once the probe has set backendReachable
shouldStartUploadTask(reachable, batteryOk) ==
    reachable /\ wifiConnected /\ wavFilesAvailable /\ batteryOk

upStartVars == <<upState, upPc, uploadTaskHandle, consecutiveUploadFailures>>

\* BackendClient::startUploadTask: nothing is created while the handle is set
startUploadTask ==
    IF uploadTaskHandle # "null"
    THEN UNCHANGED upStartVars
    ELSE /\ upState' = "alive"
         /\ upPc' = "check"
         /\ uploadTaskHandle' = "task"
         /\ consecutiveUploadFailures' = 0

\* what task i does with the result of checkBackendReachability()
RTResult(i, result, currentTime, batteryOk) ==
    IF result
    THEN /\ backendReachable' = TRUE
         /\ currentBackendInterval' = MIN_SCAN_INTERVAL
         /\ IF shouldStartUploadTask(TRUE, batteryOk)
            THEN /\ startUploadTask
                 /\ rt' = [rt EXCEPT ![i].state = "deleted", ![i].pc = "loop",
                                     ![i].currentTime = 0,
                                     ![i].lastSuccessfulCheck = currentTime]
                 /\ UNCHANGED nextBackendCheckTime
            ELSE /\ rt' = [rt EXCEPT ![i].pc = "loop", ![i].currentTime = 0,
                                     ![i].lastSuccessfulCheck = currentTime]
                 /\ nextBackendCheckTime' = currentTime + MIN_SCAN_INTERVAL
                 /\ UNCHANGED upStartVars
    ELSE /\ backendReachable' = FALSE
         /\ currentBackendInterval' = Min(currentBackendInterval * 2, MAX_SCAN_INTERVAL)
         /\ nextBackendCheckTime' = currentTime + currentBackendInterval'
         /\ rt' = [rt EXCEPT ![i].pc = "loop", ![i].currentTime = 0]
         /\ UNCHANGED upStartVars

\* the name under which task i holds httpMutex
Holder(i) == "rt" \o ToString(i)

rtRest == <<nextFile, httpResponseCode, upContent, shouldRestartReachabilityTask,
            uploadMutex, uploadInProgress, uploaded, failuresInRow,
            reachabilityTaskHandle>>

\* one pass of the loop up to the request of checkBackendReachability()
RTLoop(i, batteryReadings) ==
    /\ rt[i].state = "alive"
    /\ rt[i].pc = "loop"
    /\ IF ~wifiConnected
       THEN /\ backendReachable' = FALSE
            /\ UNCHANGED rt
            /\ UNCHANGED <<httpMutex, currentBackendInterval, nextBackendCheckTime, upStartVars>>
       ELSE IF /\ ~backendReachable \/ now - rt[i].lastSuccessfulCheck >= RECHECK_INTERVAL
               /\ now >= nextBackendCheckTime
       THEN IF httpMutex = "free"
            THEN /\ httpMutex' = Holder(i)
                 /\ rt' = [rt EXCEPT ![i].pc = "probe", ![i].currentTime = now]
                 /\ UNCHANGED <<backendReachable, currentBackendInterval,
                                nextBackendCheckTime, upStartVars>>
            ELSE /\ \E batteryOk \in batteryReadings :
                        RTResult(i, backendReachable, now, batteryOk)
                 /\ UNCHANGED httpMutex
       ELSE /\ UNCHANGED rt
            /\ UNCHANGED <<backendReachable, httpMutex, currentBackendInterval,
                           nextBackendCheckTime, upStartVars>>
    /\ UNCHANGED <<extVars, qVars, capVars, perVars, wavFilesAvailable, wifiConnected, now, rtRest>>

\* http.GET() returns: the backend answered 200 or it did not
RTProbe(i, probeResults, batteryReadings) ==
    /\ rt[i].state = "alive"
    /\ rt[i].pc = "probe"
    /\ httpMutex' = "free"
    /\ \E result \in probeResults, batteryOk \in batteryReadings :
        RTResult(i, result, rt[i].currentTime, batteryOk)
    /\ UNCHANGED <<extVars, qVars, capVars, perVars, wavFilesAvailable, wifiConnected, now, rtRest>>

-----------------------------------------------------------------------------
(* The environment of the uploader *)

\* WifiManager::deleteConnectionTask: the task and its locals are gone
deleteConnectionTask ==
    IF wifiConnectionTaskHandle # "null"
    THEN /\ wifiConnectionTaskHandle' = "null"
         /\ wcState' = "deleted"
         /\ wcPc' = "loop"
         /\ wcRead' = 0
         /\ wcTime' = 0
         /\ connectionInProgress' = FALSE
         /\ connectionStartTime' = 0
    ELSE UNCHANGED <<wifiConnectionTaskHandle, wcState, wcPc, wcRead, wcTime,
                     connectionInProgress, connectionStartTime>>

\* WifiManager::WiFiGotIP: the link is up and a reachability task is started
WiFiGotIP ==
    /\ ~wifiConnected
    /\ linkEvents < MaxLinkEvents
    /\ linkEvents' = linkEvents + 1
    /\ currentScanInterval' = MIN_SCAN_INTERVAL
    /\ scanFailures' = 0
    /\ wifiConnected' = TRUE
    /\ deleteConnectionTask
    /\ rt' = startReachabilityTask(rt, reachabilityTaskHandle).tasks
    /\ reachabilityTaskHandle' = startReachabilityTask(rt, reachabilityTaskHandle).handle
    /\ UNCHANGED <<notWifi, nextWifiScanTime, attempts, panicked>>
    /\ UNCHANGED <<qVars, capVars, perVars, wavFilesAvailable, upVars>>
    /\ UNCHANGED <<backendReachable, now, nextBackendCheckTime, currentBackendInterval,
                   httpMutex>>

\* millis() advances
Tick ==
    /\ now + MIN_SCAN_INTERVAL <= MaxNow
    /\ now' = now + MIN_SCAN_INTERVAL
    /\ UNCHANGED <<extVars, qVars, capVars, perVars, wavFilesAvailable, upVars, rtVars>>
    /\ UNCHANGED <<wifiConnected, backendReachable, nextBackendCheckTime,
                   currentBackendInterval, httpMutex>>

\* audioFileTask receives a chunk that the capture task had queued
PerRecvChunk ==
    /\ perPc = "recv"
    /\ audioFileIndex < MaxChunks
    /\ \E type \in {START, END} :
        PerReceived([type |-> type, ts |-> audioFileIndex + 1, sess |-> 1])
    /\ allocated' = allocated \cup {audioFileIndex + 1}
    /\ UNCHANGED <<notMem, freed, qVars, capVars, bootSession, appended, wavFilesAvailable, backVars>>

UpNext ==
    \/ WiFiGotIP
    \/ Tick
    \/ PerRecvChunk
    \/ PerWrite({TRUE})
    \/ PerEnq
    \/ UpCheck(BOOLEAN)
    \/ UpPeek
    \/ UpEmpty
    \/ UpRead(BOOLEAN)
    \/ UpHttpTake
    \/ UpPost(HttpCodes)
    \/ UpDelete
    \/ UpRmRead
    \/ UpRmWrite
    \/ UpIncr
    \/ UpUnlock
    \/ \E i \in RTIds : RTLoop(i, BOOLEAN)
    \/ \E i \in RTIds : RTProbe(i, BOOLEAN, BOOLEAN)

SpecUp == CaptureInit /\ [][UpNext]_vars

\* the recordings on the card
Recordings(fs) == DOMAIN fs \ {UPLOAD_QUEUE_FILE, UPLOAD_QUEUE_TEMP}

\* the upload task takes a step
UploaderStep == <<upPc, upState>>' # <<upPc, upState>>

C6_ThresholdStop ==
    [][ (upState = "alive" /\ upState' = "deleted") =>
            /\ failuresInRow' = MAX_CONSECUTIVE_UPLOAD_FAILURES
            /\ ~backendReachable'
            /\ nextBackendCheckTime' <= now'
      ]_vars

\* C7: an uploader that is in its polling delay or has terminated has released the
\* upload lock and cleared uploadInProgress.
C7_LockReleased ==
    (upState = "deleted" \/ upPc = "check") =>
        (uploadMutex = "free" /\ ~uploadInProgress)

\* C8: with the link connected, once the uploader has terminated a reachability task is
\* alive, and while paths are queued an uploader or a reachability task is alive.
C8_ControllerAlive ==
    (wifiConnected /\ (upState = "deleted" \/ ~isEmpty(getNextUploadFile(sd)))) =>
        (upState = "alive" \/ \E i \in RTIds : rt[i].state = "alive")

-----------------------------------------------------------------------------
(* Capture, persistence and the uploader with a backend that accepts every transfer *)

\* the link is up and both reachability tasks have found the backend before anything
\* was recorded: they stay in their loop until RECHECK_INTERVAL has passed
E2EInit ==
    /\ SysInit
    /\ CapBoot
    /\ PerBoot
    /\ wavFilesAvailable = FALSE
    /\ UpBoot
    /\ wifiConnected = TRUE
    /\ backendReachable = TRUE
    /\ now = 0
    /\ nextBackendCheckTime = MIN_SCAN_INTERVAL
    /\ currentBackendInterval = MIN_SCAN_INTERVAL
    /\ httpMutex = "free"
    /\ rt = [i \in RTIds |-> IF i <= 2 THEN NewTask ELSE NoTask]
    /\ reachabilityTaskHandle = 2
    /\ PwrBoot
    /\ LogBoot
    /\ GuardBoot
    /\ WifiUp
    /\ MemBoot
    /\ AuxBoot

E2ENext ==
    \/ ButtonToggle
    \/ RecDecide({TRUE})
    \/ RecCaptureSend({TRUE})
    \/ PerRecv
    \/ PerWrite({TRUE})
    \/ PerEnq
    \/ UpCheck({TRUE})
    \/ UpPeek
    \/ UpEmpty
    \/ UpRead({TRUE})
    \/ UpHttpTake
    \/ UpPost({HTTP_CODE_OK, HTTP_CODE_CREATED})
    \/ UpDelete
    \/ UpRmRead
    \/ UpRmWrite
    \/ UpUnlock

SpecE2E == E2EInit /\ [][E2ENext]_vars

\* nothing is being recorded, queued or written, and the uploader waits for files
Settled ==
    /\ ~recordingRequested
    /\ ~wasRecording
    /\ recPc = "loop"
    /\ audioQueue = << >>
    /\ perPc = "recv"
    /\ upPc = "check"
    /\ ~wavFilesAvailable

\* C5: once the recorded chunks have been persisted and the uploader has cleared
\* filesAvailable, every appended path has been uploaded exactly once in the order it
\* was enqueued, its file is deleted and the durable queue is empty.
C5_AllUploaded ==
    Settled =>
        /\ uploaded = [i \in 1..Len(appended) |-> appended[i].path]
        /\ Recordings(sd) = {}
        /\ isEmpty(getNextUploadFile(sd))

-----------------------------------------------------------------------------
(* The deep sleep task *)

\* Application::isSystemIdle, with the battery readings that canRecord() and
\* canUploadFiles() take
isSystemIdle(recBatteryOk, upBatteryOk) ==
    IF canRecord(recBatteryOk) \/ canUploadFiles(upBatteryOk)
    THEN FALSE
    ELSE IF wasRecording
    THEN FALSE
    ELSE IF Len(audioQueue) > 0
    THEN FALSE
    ELSE TRUE

\* deepSleepTask: the 3 s initialisation delay has passed
DsDelay ==
    /\ dsPc = "delay"
    /\ dsPc' = "check"
    /\ UNCHANGED <<qVars, capVars, perVars, wavFilesAvailable, backVars, asleep, notPwr>>

\* deepSleepTask: one pass of the loop up to the call of initDeepSleep; canRecord()
\* clears recordingRequested when the battery is too low for recording, and the
\* message "System is idle, ..." is sent to the log queue (the send waits for room)
DsCheck(batteryReadings) ==
    /\ dsPc = "check"
    /\ \E recBatteryOk \in batteryReadings, upBatteryOk \in batteryReadings :
        /\ recordingRequested' = (recordingRequested /\ recBatteryOk)
        /\ IF isSystemIdle(recBatteryOk, upBatteryOk)
           THEN /\ logQueue < LOG_QUEUE_SIZE
                /\ logQueue' = logQueue + 1
                /\ dsPc' = "flush"
           ELSE UNCHANGED <<logQueue, dsPc>>
    /\ UNCHANGED <<readyForDeepSleep, wasRecording, recPc, recChunk, capSeq, audioQueue,
                   toggles, session, pushed>>
    /\ UNCHANGED <<qVars, perVars, wavFilesAvailable, backVars, asleep, lfPc, lfHeld, notPwrLog>>

\* PowerManager::initDeepSleep: the loop that waits until no log is pending
DsFlush ==
    /\ dsPc = "flush"
    /\ logQueue = 0
    /\ dsPc' = "store"
    /\ UNCHANGED <<qVars, capVars, perVars, wavFilesAvailable, backVars, asleep, notPwr>>

\* PowerManager::initDeepSleep: storeCurrentTime() writes the time file with the
\* storage guard taken (no timeout) and logs, enterDeepSleep() logs and
\* esp_deep_sleep_start() halts the processor
DsSleep ==
    /\ dsPc = "store"
    /\ sdMutex = "free"
    /\ logQueue + 2 <= LOG_QUEUE_SIZE
    /\ logQueue' = logQueue + 2
    /\ asleep' = TRUE
    /\ UNCHANGED <<qVars, capVars, perVars, wavFilesAvailable, backVars, dsPc, lfPc, lfHeld, notPwrLog>>

\* LogManager::logFlushTask: every waiting message is received into pendingLogs
LogFlush ==
    /\ lfPc = "poll"
    /\ logQueue > 0
    /\ lfHeld' = logQueue
    /\ logQueue' = 0
    /\ lfPc' = "write"
    /\ UNCHANGED <<qVars, capVars, perVars, wavFilesAvailable, backVars, notLog>>

\* LogManager::logFlushTask: addToFile(LOG_FILE, pendingLogs) appends with the storage
\* guard taken, or gives up after the guard's 5 s timeout; the messages are dropped
\* either way
LogWrite ==
    /\ lfPc = "write"
    /\ lfHeld' = 0
    /\ lfPc' = "poll"
    /\ UNCHANGED <<qVars, capVars, perVars, wavFilesAvailable, backVars, logQueue, notLog>>

\* a step of a task while the processor runs
Awake(step) == ~asleep /\ step

\* the device boots with the link down, or with the link up and the backend found
SleepInit == CaptureInit \/ E2EInit

SleepNext ==
    \/ Awake(ButtonToggle)
    \/ Awake(RecDecide({TRUE}))
    \/ Awake(RecCaptureSend({TRUE}))
    \/ Awake(PerRecv)
    \/ Awake(PerWrite({TRUE}))
    \/ Awake(PerEnq)
    \/ Awake(UpCheck({TRUE}))
    \/ Awake(UpPeek)
    \/ Awake(UpEmpty)
    \/ Awake(UpRead({TRUE}))
    \/ Awake(UpHttpTake)
    \/ Awake(UpPost({HTTP_CODE_OK, HTTP_CODE_CREATED}))
    \/ Awake(UpDelete)
    \/ Awake(UpRmRead)
    \/ Awake(UpRmWrite)
    \/ Awake(UpUnlock)
    \/ Awake(DsDelay)
    \/ Awake(DsCheck(BOOLEAN))
    \/ Awake(DsFlush)
    \/ Awake(DsSleep)
    \/ Awake(LogFlush)
    \/ Awake(LogWrite)

SpecSleep == SleepInit /\ [][SleepNext]_vars

\* nothing is requested, captured, queued, written, enqueued or uploaded
NoUsefulWork ==
    /\ ~recordingRequested
    /\ recPc = "loop"
    /\ ~wasRecording
    /\ audioQueue = << >>
    /\ perPc = "recv"
    /\ ~uploadInProgress
    /\ isUploadQueueEmpty(sd)

\* C11: when deepSleepTask finds the system idle and starts the sleep transition,
\* recording is not requested, no chunk is being captured, the bounded queue is empty,
\* persistence is not writing or enqueueing a chunk, no upload is in flight and the
\* durable queue is empty.
C11_SleepOnlyWhenIdle ==
    [][(dsPc = "check" /\ dsPc' = "flush") => NoUsefulWork']_vars

\* the conditions of idleness that do not hold
Flipped ==
    {c \in {"recordingRequested", "boundedQueue", "durableQueue", "upload"} :
        \/ c = "recordingRequested" /\ recordingRequested
        \/ c = "boundedQueue" /\ audioQueue # << >>
        \/ c = "durableQueue" /\ ~isUploadQueueEmpty(sd)
        \/ c = "upload" /\ uploadInProgress}

\* C12: whatever the link, the backend and the battery readings are, isSystemIdle()
\* returns true when recording is not requested, the bounded queue and the durable
\* queue are empty and no upload is in flight, and returns false when exactly one of
\* these four conditions does not hold.
C12_IdleDetection ==
    \A recBatteryOk \in BOOLEAN, upBatteryOk \in BOOLEAN :
        /\ Flipped = {} => isSystemIdle(recBatteryOk, upBatteryOk)
        /\ Cardinality(Flipped) = 1 => ~isSystemIdle(recBatteryOk, upBatteryOk)

-----------------------------------------------------------------------------
(* Persistence, uploader, log flusher and deep sleep task under fair scheduling *)

\* link up, backend reachable, battery ok and a backend that accepts every transfer;
\* reading a recording back from the card may fail
LiveNext ==
    \/ Awake(PerRecvChunk)
    \/ Awake(PerWrite({TRUE}))
    \/ Awake(PerEnq)
    \/ Awake(UpCheck({TRUE}))
    \/ Awake(UpPeek)
    \/ Awake(UpEmpty)
    \/ Awake(UpRead(BOOLEAN))
    \/ Awake(UpHttpTake)
    \/ Awake(UpPost({HTTP_CODE_OK, HTTP_CODE_CREATED}))
    \/ Awake(UpDelete)
    \/ Awake(UpRmRead)
    \/ Awake(UpRmWrite)
    \/ Awake(UpIncr)
    \/ Awake(UpUnlock)
    \/ Awake(DsDelay)
    \/ Awake(DsCheck({TRUE}))
    \/ Awake(DsFlush)
    \/ Awake(DsSleep)
    \/ Awake(LogFlush)
    \/ Awake(LogWrite)

\* the steps of audioFileTask after a chunk was received
PersistenceSteps == Awake(PerWrite({TRUE})) \/ Awake(PerEnq)

\* the steps of the upload task
UploaderSteps ==
    \/ Awake(UpCheck({TRUE}))
    \/ Awake(UpPeek)
    \/ Awake(UpEmpty)
    \/ Awake(UpRead(BOOLEAN))
    \/ Awake(UpHttpTake)
    \/ Awake(UpPost({HTTP_CODE_OK, HTTP_CODE_CREATED}))
    \/ Awake(UpDelete)
    \/ Awake(UpRmRead)
    \/ Awake(UpRmWrite)
    \/ Awake(UpIncr)
    \/ Awake(UpUnlock)

\* the steps of deepSleepTask
DeepSleepSteps ==
    Awake(DsDelay) \/ Awake(DsCheck({TRUE})) \/ Awake(DsFlush) \/ Awake(DsSleep)

\* the steps of logFlushTask
LogFlushSteps == Awake(LogFlush) \/ Awake(LogWrite)

\* every task is a FreeRTOS task that blocks only in delays, so the scheduler runs it
\* again and again; deepSleepTask polls hasPendingLogs() every 500 ms while the
\* flusher empties the queue every 10 ms, hence strong fairness for that task
SpecLive ==
    /\ E2EInit
    /\ [][LiveNext]_vars
    /\ WF_vars(PersistenceSteps)
    /\ WF_vars(UploaderSteps)
    /\ SF_vars(DeepSleepSteps)
    /\ WF_vars(LogFlushSteps)

\* nothing is requested, captured, queued or being written, and the upload task is in
\* its polling delay or was deleted
Quiet ==
    /\ ~recordingRequested
    /\ ~wasRecording
    /\ recPc = "loop"
    /\ audioQueue = << >>
    /\ perPc = "recv"
    /\ upState = "deleted" \/ upPc = "check"

\* C13: under fair scheduling, if from some point on no useful work remains and none
\* can progress, the device eventually enters deep sleep: the wait for pending logs
\* ends, and the device does not stay awake with canUploadFiles() true and no upload
\* task able to progress.
C13_SleepLiveness == <>[]Quiet => <>asleep

-----------------------------------------------------------------------------
(* main.cpp: audioFileTask, log and logFlushTask of the single-file firmware *)

\* audioFileTask: xSemaphoreTake(sdMutex, portMAX_DELAY) for the received chunk
MainPerTake ==
    /\ perPc = "write"
    /\ sdMutex = "free"
    /\ sdMutex' = "audioFile"
    /\ perPc' = "open"
    /\ UNCHANGED <<sd, impl, enq, deq, lastPeek, hOp, dqPc, dqContent, pre, rebooted, crashes>>
    /\ UNCHANGED <<capVars, perChunk, perFile, audioFileIndex, bootSession, appended>>
    /\ UNCHANGED <<wavFilesAvailable, backVars, extVars>>

\* audioFileTask with sdMutex held: SD.open and write of the chunk, and the call of
\* log() that reports the outcome; log() waits for room in the log queue
MainPerWrite(writeResults) ==
    /\ perPc = "open"
    /\ logQueue < LOG_QUEUE_SIZE
    /\ logQueue' = logQueue + 1
    /\ \E result \in writeResults :
        IF result = "written"
        THEN /\ sd' = SDwrite(sd, perFile, WavData(perChunk))
             /\ wavFilesAvailable' = TRUE
             /\ perPc' = "enq"
             /\ UNCHANGED <<sdMutex, perChunk, perFile, freed>>
        ELSE /\ sd' = IF result = "short" THEN SDwrite(sd, perFile, EmptyStr) ELSE sd
             /\ sdMutex' = "free"
             /\ perPc' = "recv"
             /\ perChunk' = NoChunk
             /\ perFile' = EmptyStr
             /\ freed' = freeBuffer(freed, perChunk.ts)
             /\ UNCHANGED wavFilesAvailable
    /\ UNCHANGED <<impl, enq, deq, lastPeek, hOp, dqPc, dqContent, pre, rebooted, crashes>>
    /\ UNCHANGED <<capVars, audioFileIndex, bootSession, appended, backVars>>
    /\ UNCHANGED <<lfPc, lfHeld, pwrVars, guardVars, wifiVars, auxVars, allocated>>

\* audioFileTask with sdMutex held: addToUploadQueue(fileName) and the call of log()
\* that reports it, then xSemaphoreGive(sdMutex) and free(audio.buffer)
MainPerEnq ==
    /\ perPc = "enq"
    /\ logQueue < LOG_QUEUE_SIZE
    /\ logQueue' = logQueue + 1
    /\ sd' = main_addToUploadQueue(sd, perFile).fs
    /\ appended' = Append(appended, [path |-> perFile, chunk |-> perChunk])
    /\ sdMutex' = "free"
    /\ perPc' = "recv"
    /\ perChunk' = NoChunk
    /\ perFile' = EmptyStr
    /\ freed' = freeBuffer(freed, perChunk.ts)
    /\ UNCHANGED <<impl, enq, deq, lastPeek, hOp, dqPc, dqContent, pre, rebooted, crashes>>
    /\ UNCHANGED <<capVars, audioFileIndex, bootSession, wavFilesAvailable, backVars>>
    /\ UNCHANGED <<lfPc, lfHeld, pwrVars, guardVars, wifiVars, auxVars, allocated>>

\* logFlushTask: messages are waiting and xSemaphoreTake(sdMutex, portMAX_DELAY) returns
MainLogTake ==
    /\ lfPc = "poll"
    /\ logQueue > 0
    /\ sdMutex = "free"
    /\ sdMutex' = "logFlush"
    /\ lfPc' = "drain"
    /\ UNCHANGED <<sd, impl, enq, deq, lastPeek, hOp, dqPc, dqContent, pre, rebooted, crashes>>
    /\ UNCHANGED <<capVars, perVars, wavFilesAvailable, backVars, logQueue, lfHeld, notLog>>

\* logFlushTask with sdMutex held: every waiting message is received and printed to
\* the log file (or only freed when the file cannot be opened), sdMutex is given
MainLogDrain ==
    /\ lfPc = "drain"
    /\ logQueue' = 0
    /\ sdMutex' = "free"
    /\ lfPc' = "poll"
    /\ UNCHANGED <<sd, impl, enq, deq, lastPeek, hOp, dqPc, dqContent, pre, rebooted, crashes>>
    /\ UNCHANGED <<capVars, perVars, wavFilesAvailable, backVars, lfHeld, notLog>>

\* log() called by one of the other tasks (recordAudio, the WiFi and upload tasks)
TaskLog ==
    /\ logQueue < LOG_QUEUE_SIZE
    /\ logQueue' = logQueue + 1
    /\ UNCHANGED <<qVars, capVars, perVars, wavFilesAvailable, backVars, lfPc, lfHeld, notLog>>

\* setup() of main.cpp has created the queues, the mutex and the tasks
LogInit == FifoInit /\ impl = "main"

LogNext ==
    \/ PerRecvChunk
    \/ MainPerTake
    \/ MainPerWrite({"written", "short", "failed"})
    \/ MainPerEnq
    \/ MainLogTake
    \/ MainLogDrain
    \/ TaskLog

SpecLog == LogInit /\ [][LogNext]_vars

\* audioFileTask holds sdMutex and waits in log() for room in the full log queue,
\* while logFlushTask, the only receiver, waits for sdMutex
LogDeadlock ==
    /\ sdMutex = "audioFile"
    /\ perPc \in {"open", "enq"}
    /\ logQueue = LOG_QUEUE_SIZE
    /\ lfPc = "poll"

\* C14: no task waits forever: a task that logs while it holds the storage guard is
\* never blocked on a full log queue whose flusher waits for that guard.
C14_NoDeadlock == ~LogDeadlock

-----------------------------------------------------------------------------
(* The storage guard *)

\* the code that takes the guard with a timeout: SDLockGuard (5000 ms) in FileSystem.cpp,
\* the queue and upload functions in main.cpp; the others pass portMAX_DELAY
Timed(t) ==
    IF impl = "FileSystem"
    THEN t \in {"audioFile", "uploader", "logFlush", SETUP}
    ELSE t = "uploader"

\* setup code runs before the tasks are created, the tasks after
Runs(t) == IF t = SETUP THEN ~booted ELSE booted

\* a file operation of FileSystem.cpp or TimeManager.cpp, or of a task of main.cpp,
\* calls xSemaphoreTake(sdMutex, ...)
GuardCall(t) ==
    /\ Runs(t)
    /\ t = SETUP => impl = "FileSystem"
    /\ gPc[t] = "idle"
    /\ gPc' = [gPc EXCEPT ![t] = "wait"]
    /\ UNCHANGED <<qVars, capVars, perVars, wavFilesAvailable, backVars, notGuard>>
    /\ UNCHANGED <<sdUsers, booted>>

\* xSemaphoreTake returns pdTRUE and the file is opened
GuardTake(t) ==
    /\ gPc[t] = "wait"
    /\ sdMutex = "free"
    /\ sdMutex' = t
    /\ gPc' = [gPc EXCEPT ![t] = "op"]
    /\ sdUsers' = sdUsers \cup {t}
    /\ UNCHANGED <<sd, impl, enq, deq, lastPeek, hOp, dqPc, dqContent, pre, rebooted, crashes>>
    /\ UNCHANGED <<capVars, perVars, wavFilesAvailable, backVars, notGuard, booted>>

\* a file operation that went on without testing isLocked()
lockIgnored(users, t) == users \cup {t}

\* if (!lock.isLocked()) return false: the card is not touched after a timeout
lockFailed(users, t) == users

\* xSemaphoreTake returns pdFALSE after its timeout
GuardTimeout(t) ==
    /\ gPc[t] = "wait"
    /\ Timed(t)
    /\ sdMutex # "free"
    /\ sdUsers' = lockFailed(sdUsers, t)
    /\ gPc' = [gPc EXCEPT ![t] = IF t \in sdUsers' THEN "op" ELSE "idle"]
    /\ UNCHANGED <<qVars, capVars, perVars, wavFilesAvailable, backVars, notGuard>>
    /\ UNCHANGED booted

\* the file is closed and the guard is given by the one that took it
GuardGive(t) ==
    /\ gPc[t] = "op"
    /\ t = SETUP => impl = "FileSystem"
    /\ sdUsers' = sdUsers \ {t}
    /\ sdMutex' = IF sdMutex = t THEN "free" ELSE sdMutex
    /\ gPc' = [gPc EXCEPT ![t] = "idle"]
    /\ UNCHANGED <<sd, impl, enq, deq, lastPeek, hOp, dqPc, dqContent, pre, rebooted, crashes>>
    /\ UNCHANGED <<capVars, perVars, wavFilesAvailable, backVars, notGuard, booted>>

\* main.cpp: setup(), setup_from_timer(), setup_from_external(), ensureLogFile() and
\* ensureRecordingDirectory() open the log file or make the directory without sdMutex
SetupOp ==
    /\ ~booted
    /\ impl = "main"
    /\ gPc[SETUP] = "idle"
    /\ gPc' = [gPc EXCEPT ![SETUP] = "op"]
    /\ sdUsers' = sdUsers \cup {SETUP}
    /\ UNCHANGED <<qVars, capVars, perVars, wavFilesAvailable, backVars, notGuard>>
    /\ UNCHANGED booted

\* ... and close the file
SetupOpEnd ==
    /\ impl = "main"
    /\ gPc[SETUP] = "op"
    /\ gPc' = [gPc EXCEPT ![SETUP] = "idle"]
    /\ sdUsers' = sdUsers \ {SETUP}
    /\ UNCHANGED <<qVars, capVars, perVars, wavFilesAvailable, backVars, notGuard>>
    /\ UNCHANGED booted

\* the tasks are created
SetupDone ==
    /\ ~booted
    /\ gPc[SETUP] = "idle"
    /\ booted' = TRUE
    /\ UNCHANGED <<qVars, capVars, perVars, wavFilesAvailable, backVars, notGuard>>
    /\ UNCHANGED <<sdUsers, gPc>>

\* power-on with either build: the mutex exists and setup has not touched the card
GuardInit ==
    /\ impl \in Impls
    /\ sd = IF impl = "FileSystem" THEN SDwrite(NoFiles, UPLOAD_QUEUE_FILE, EmptyStr) ELSE NoFiles
    /\ enq = << >>
    /\ deq = 0
    /\ lastPeek = EmptyStr
    /\ hOp = "none"
    /\ StepIdle
    /\ CapBoot
    /\ PerBoot
    /\ wavFilesAvailable = FALSE
    /\ NetBoot
    /\ UpBoot
    /\ RtBoot
    /\ PwrBoot
    /\ LogBoot
    /\ WifiBoot
    /\ MemBoot
    /\ AuxBoot
    /\ sdUsers = {}
    /\ gPc = [t \in SdTasks \cup {SETUP} |-> "idle"]
    /\ booted = FALSE

GuardNext ==
    \/ \E t \in SdTasks \cup {SETUP} : GuardCall(t)
    \/ \E t \in SdTasks \cup {SETUP} : GuardTake(t)
    \/ \E t \in SdTasks \cup {SETUP} : GuardTimeout(t)
    \/ \E t \in SdTasks \cup {SETUP} : GuardGive(t)
    \/ SetupOp
    \/ SetupOpEnd
    \/ SetupDone

SpecGuard == GuardInit /\ [][GuardNext]_vars

------------------------------------------------------------------------------
(* The link goes down: WifiManager::WiFiDisconnected *)

\* vTaskDelete of a handle whose task has already deleted itself: the freed control
\* block is still intact and nothing more happens, or it is not and the firmware aborts
StaleOutcomes == {"none", "panic"}

\* BackendClient::stopReachabilityTask deletes the task of the handle
stopReachabilityTask(tasks, handle) ==
    IF handle # 0 /\ tasks[handle].state = "alive"
    THEN [tasks EXCEPT ![handle].state = "deleted"]
    ELSE tasks

\* BackendClient::stopUploadTask deletes the task of the handle
stopUploadTask(state, handle) ==
    IF handle # "null" /\ state = "alive" THEN "deleted" ELSE state

\* one of the two handles names a task that is gone
StaleHandle ==
    \/ reachabilityTaskHandle # 0 /\ rt[reachabilityTaskHandle].state # "alive"
    \/ uploadTaskHandle # "null" /\ upState # "alive"

\* WifiManager::startConnectionTask, called when no connection task exists
restartConnectionTask ==
    IF wifiConnectionTaskHandle = "null"
    THEN /\ wifiConnectionTaskHandle' = "task"
         /\ wcState' = "alive"
         /\ wcPc' = "loop"
         /\ wcRead' = 0
         /\ wcTime' = 0
         /\ connectionInProgress' = FALSE
         /\ connectionStartTime' = 0
    ELSE UNCHANGED <<wifiConnectionTaskHandle, wcState, wcPc, wcRead, wcTime,
                     connectionInProgress, connectionStartTime>>

\* the event handler: both backend tasks are deleted wherever they are, whatever they
\* hold stays held, the scan interval is reset and the connection task restarted
WiFiDisconnected(staleOutcomes) ==
    /\ wifiConnected \/ connectionInProgress
    /\ linkEvents < MaxLinkEvents
    /\ linkEvents' = linkEvents + 1
    /\ wifiConnected' = FALSE
    /\ rt' = stopReachabilityTask(rt, reachabilityTaskHandle)
    /\ reachabilityTaskHandle' = 0
    /\ upState' = stopUploadTask(upState, uploadTaskHandle)
    /\ uploadTaskHandle' = "null"
    /\ IF StaleHandle
       THEN \E outcome \in staleOutcomes : panicked' = (outcome = "panic")
       ELSE UNCHANGED panicked
    /\ currentScanInterval' = MIN_SCAN_INTERVAL
    /\ scanFailures' = 0
    /\ nextWifiScanTime' = now + MIN_SCAN_INTERVAL
    /\ restartConnectionTask
    /\ UNCHANGED <<notWifi, qVars, capVars, perVars, wavFilesAvailable, attempts>>
    /\ UNCHANGED <<backendReachable, now, nextBackendCheckTime, currentBackendInterval,
                   httpMutex>>
    /\ UNCHANGED <<upPc, nextFile, httpResponseCode, upContent, consecutiveUploadFailures,
                   shouldRestartReachabilityTask, uploadMutex, uploadInProgress, uploaded,
                   failuresInRow>>

\* the rest of the state, for the steps of the connection task
wcFrame == <<notWifi, qVars, capVars, perVars, wavFilesAvailable, backVars, wifiConnectionTaskHandle,
             wcState, linkEvents, panicked>>

\* the same without the count of connection attempts
wcSame == <<wcFrame, attempts>>

CONNECTION_TIMEOUT == 15000

\* what scanNetworks() and the search for SS_ID give
ScanResults == {"none", "other", "found"}

\* a plausible slip: the scan does not wait for its time
scanAnyTime(currentTime) == TRUE

\* wifiConnectionTask line 161: currentTime >= getNextWifiScanTime()
scanDue(currentTime) == currentTime >= nextWifiScanTime

\* std::min(getCurrentScanInterval() * 2UL, (unsigned long)MAX_SCAN_INTERVAL)
unclamped(interval) == interval * 2
backoff(interval) == Min(interval * 2, MAX_SCAN_INTERVAL)

\* one pass of the loop of wifiConnectionTask up to the read of the scan interval;
\* the interval is read here and set in the next step, it is shared with the event
\* handlers without a guard
WcLoop(scanResults) ==
    /\ wcState = "alive"
    /\ wcPc = "loop"
    /\ IF connectionInProgress
       THEN IF wifiConnected
            THEN /\ connectionInProgress' = FALSE
                 /\ currentScanInterval' = MIN_SCAN_INTERVAL
                 /\ scanFailures' = 0
                 /\ UNCHANGED <<wcPc, wcRead, wcTime, connectionStartTime, attempts>>
            ELSE IF now - connectionStartTime > CONNECTION_TIMEOUT
            THEN /\ wcRead' = currentScanInterval
                 /\ wcTime' = now
                 /\ wcPc' = "write"
                 /\ UNCHANGED <<connectionInProgress, connectionStartTime, currentScanInterval,
                                scanFailures, attempts>>
            ELSE UNCHANGED <<wcPc, wcRead, wcTime, connectionInProgress, connectionStartTime,
                             currentScanInterval, scanFailures, attempts>>
       ELSE IF ~wifiConnected /\ scanDue(now)
            THEN \E result \in scanResults :
                    IF result = "found"
                    THEN /\ attempts < MaxAttempts
                         /\ attempts' = attempts + 1
                         /\ connectionInProgress' = TRUE
                         /\ connectionStartTime' = now
                         /\ UNCHANGED <<wcPc, wcRead, wcTime, currentScanInterval, scanFailures>>
                    ELSE /\ wcRead' = currentScanInterval
                         /\ wcTime' = now
                         /\ wcPc' = "write"
                         /\ UNCHANGED <<connectionInProgress, connectionStartTime,
                                        currentScanInterval, scanFailures, attempts>>
            ELSE /\ currentScanInterval' =
                        IF wifiConnected THEN MIN_SCAN_INTERVAL ELSE currentScanInterval
                 /\ scanFailures' = IF wifiConnected THEN 0 ELSE scanFailures
                 /\ UNCHANGED <<wcPc, wcRead, wcTime, connectionInProgress, connectionStartTime,
                                attempts>>
    /\ UNCHANGED <<wcFrame, nextWifiScanTime>>

\* setCurrentScanInterval(newInterval); setNextWifiScanTime(currentTime + newInterval);
\* connectionStartTime is not read again before connect() sets it
WcWrite ==
    /\ wcState = "alive"
    /\ wcPc = "write"
    /\ currentScanInterval' = backoff(wcRead)
    /\ nextWifiScanTime' = wcTime + backoff(wcRead)
    /\ scanFailures' = scanFailures + 1
    /\ connectionInProgress' = FALSE
    /\ connectionStartTime' = 0
    /\ wcPc' = "loop"
    /\ wcRead' = 0
    /\ wcTime' = 0
    /\ UNCHANGED wcSame

\* the times at which a waiting task has something to do: the next scan or the end
\* of the connection attempt while the connection task runs, the next backend check
\* while the link is up
Deadlines ==
    (IF wcState = "alive" /\ ~connectionInProgress THEN {nextWifiScanTime} ELSE {})
        \cup (IF connectionInProgress THEN {connectionStartTime + CONNECTION_TIMEOUT + 1} ELSE {})
        \cup (IF wifiConnected THEN {nextBackendCheckTime} ELSE {})

\* millis() advances to the next of them
Elapse ==
    /\ wcPc = "loop"
    /\ \E t \in Deadlines :
        /\ t > now
        /\ t <= MaxClock
        /\ \A u \in Deadlines : u > now => t <= u
        /\ now' = t
    /\ UNCHANGED <<extVars, qVars, capVars, perVars, wavFilesAvailable, upVars, rtVars>>
    /\ UNCHANGED <<wifiConnected, backendReachable, nextBackendCheckTime,
                   currentBackendInterval, httpMutex>>

\* a step of the running firmware
Running(step) == ~asleep /\ ~panicked /\ step

\* the uploader and the reachability tasks while the link comes and goes
NetNext ==
    \/ Running(WiFiGotIP)
    \/ Running(WiFiDisconnected(StaleOutcomes))
    \/ Running(PerRecvChunk)
    \/ Running(PerWrite({TRUE}))
    \/ Running(PerEnq)
    \/ Running(UpCheck({TRUE}))
    \/ Running(UpPeek)
    \/ Running(UpEmpty)
    \/ Running(UpRead({TRUE}))
    \/ Running(UpHttpTake)
    \/ Running(UpPost(HttpCodes))
    \/ Running(UpDelete)
    \/ Running(UpRmRead)
    \/ Running(UpRmWrite)
    \/ Running(UpIncr)
    \/ Running(UpUnlock)
    \/ Running(\E i \in RTIds : RTLoop(i, {TRUE}))
    \/ Running(\E i \in RTIds : RTProbe(i, BOOLEAN, {TRUE}))

SpecNet == CaptureInit /\ [][NetNext]_vars

\* the POST of the uploader is in flight
PostInFlight == upState = "alive" /\ upPc = "post"

\* the GET of reachability task i is in flight
GetInFlight(i) == rt[i].state = "alive" /\ rt[i].pc = "probe"

\* C16: a POST and a GET are never in flight together, the network guard is held by
\* exactly the task that is inside an HTTP request, and it is free whenever no request
\* is in flight.
C16_NetworkExclusion ==
    /\ ~(PostInFlight /\ \E i \in RTIds : GetInFlight(i))
    /\ \A i, j \in RTIds : GetInFlight(i) /\ GetInFlight(j) => i = j
    /\ httpMutex = "uploader" <=> PostInFlight
    /\ \A i \in RTIds : httpMutex = Holder(i) <=> GetInFlight(i)
------------------------------------------------------------------------------
(* The two backoff intervals *)

\* the state after one chunk has been persisted and queued, the link still down
BackoffInit ==
    LET chunk == [type |-> END, ts |-> 1, sess |-> 1]
        path == FileName(1, 0, 1, END)
        card == SDwrite(NoFiles, UPLOAD_QUEUE_FILE, EmptyStr)
    IN  /\ impl = "FileSystem"
        /\ sd = addToUploadQueue(overwriteFile(card, path, WavData(chunk)), path).fs
        /\ enq = << >>
        /\ deq = 0
        /\ lastPeek = EmptyStr
        /\ hOp = "none"
        /\ StepIdle
        /\ CapBoot
        /\ perPc = "recv"
        /\ perChunk = NoChunk
        /\ perFile = EmptyStr
        /\ audioFileIndex = 1
        /\ bootSession = 1
        /\ appended = <<[path |-> path, chunk |-> chunk]>>
        /\ wavFilesAvailable = TRUE
        /\ NetBoot
        /\ UpBoot
        /\ RtBoot
        /\ PwrBoot
        /\ LogBoot
        /\ GuardBoot
        /\ WifiBoot
        /\ AuxBoot
        /\ allocated = {1}
        /\ freed = freeBuffer(<< >>, 1)

BackoffNext ==
    \/ Running(WiFiGotIP)
    \/ Running(WiFiDisconnected(StaleOutcomes))
    \/ Running(WcLoop(ScanResults))
    \/ Running(WcWrite)
    \/ Running(Elapse)
    \/ Running(\E i \in RTIds : RTLoop(i, {TRUE}))
    \/ Running(\E i \in RTIds : RTProbe(i, BOOLEAN, {TRUE}))

SpecBackoff == BackoffInit /\ [][BackoffNext]_vars

\* C17: the link-scan interval and the backend interval are always between
\* MIN_SCAN_INTERVAL and MAX_SCAN_INTERVAL, whatever the probes, the connection
\* attempts, the WiFi events and the uploader do.
C17_BackoffBounds ==
    /\ MIN_SCAN_INTERVAL <= currentScanInterval
    /\ currentScanInterval <= MAX_SCAN_INTERVAL
    /\ MIN_SCAN_INTERVAL <= currentBackendInterval
    /\ currentBackendInterval <= MAX_SCAN_INTERVAL

\* the backend interval has been doubled up to the upper bound and the scan interval,
\* reset when the link was lost, has been doubled again
C17_Witness ==
    /\ currentBackendInterval = MAX_SCAN_INTERVAL
    /\ currentScanInterval > MIN_SCAN_INTERVAL
    /\ linkEvents = 2

\* a probe of reachability task i ends in this step
ProbeEnds(i) == rt[i].pc = "probe" /\ rt'[i].pc = "loop"

\* the backend interval after a step: MIN after a probe that succeeded, twice the
\* interval, at most MAX, after one that failed, and changed by nothing else than
\* the result of a check
BackendStep ==
    /\ \A i \in RTIds :
        ProbeEnds(i) =>
            currentBackendInterval' =
                IF backendReachable' THEN MIN_SCAN_INTERVAL ELSE backoff(currentBackendInterval)
    /\ currentBackendInterval' # currentBackendInterval =>
            currentBackendInterval' \in {MIN_SCAN_INTERVAL, backoff(currentBackendInterval)}

\* C18: starting from MIN_SCAN_INTERVAL, after N failed scans or connection attempts
\* in a row the scan interval is min(MIN * 2^N, MAX), and one success sets it to
\* exactly MIN; each failed backend probe doubles the backend interval up to MAX and
\* one successful probe sets it to exactly MIN.
C18_BackoffDoubling ==
    /\ [](currentScanInterval = Min(MIN_SCAN_INTERVAL * 2^scanFailures, MAX_SCAN_INTERVAL))
    /\ [][BackendStep]_vars
------------------------------------------------------------------------------
(* The chunk buffers *)

\* the chunks of a session that is being recorded
SessionChunk(n) == [type |-> IF n = 1 THEN START ELSE MIDDLE, ts |-> n, sess |-> 1]

\* the button has been pressed once and the capture task has pushed Backlog chunks of
\* the session while persistence has not yet received one
MemInit ==
    /\ SysInit
    /\ recordingRequested = TRUE
    /\ readyForDeepSleep = FALSE
    /\ wasRecording = TRUE
    /\ recPc = "loop"
    /\ recChunk = NoChunk
    /\ capSeq = Backlog
    /\ audioQueue = [n \in 1..Backlog |-> SessionChunk(n)]
    /\ toggles = 1
    /\ session = 1
    /\ pushed = [n \in 1..Backlog |-> SessionChunk(n)]
    /\ PerBoot
    /\ wavFilesAvailable = FALSE
    /\ NetBoot
    /\ UpBoot
    /\ RtBoot
    /\ PwrBoot
    /\ LogBoot
    /\ GuardBoot
    /\ WifiBoot
    /\ AuxBoot
    /\ allocated = 1..Backlog
    /\ freed = << >>

\* capture runs until the bounded queue is full and beyond
MemNext ==
    \/ ButtonToggle
    \/ RecDecideUpTo({TRUE}, Backlog + MaxBuffers)
    \/ RecCaptureSend(BOOLEAN)
    \/ PerRecv
    \/ PerWrite(BOOLEAN)
    \/ PerEnq

SpecMem == MemInit /\ [][MemNext]_vars

\* the buffers of the chunks in the bounded queue
Queued == {audioQueue[i].ts : i \in 1..Len(audioQueue)}

\* the buffer audioFileTask has received and not yet freed
InPersistence == IF perPc \in {"write", "enq"} THEN {perChunk.ts} ELSE {}

\* the buffers allocated and not yet freed
Outstanding == allocated \ DOMAIN freed

\* audioFileTask copies audio.buffer in this step
ReadsBuffer == perPc = "write" /\ perPc' # "write"

\* C19: every buffer the capture task allocated is freed exactly once, by persistence
\* after its write attempt or by capture when the push fails: no buffer is freed
\* twice or without having been allocated, the buffers not yet freed are exactly
\* those in the bounded queue and the one persistence works on, and persistence
\* never reads a buffer that has been freed.
C19_BufferOwnership ==
    /\ [](/\ DOMAIN freed \subseteq allocated
          /\ \A b \in DOMAIN freed : freed[b] = 1
          /\ Outstanding = Queued \cup InPersistence
          /\ Len(audioQueue) = Cardinality(Queued))
    /\ [][ReadsBuffer => perChunk.ts \in Outstanding]_vars

\* a push has failed on the full queue and capture freed the buffer, and a write
\* has failed and persistence freed the buffer, while the queue still holds chunks
C19_Witness ==
    /\ \E b \in DOMAIN freed : b \notin {pushed[i].ts : i \in 1..Len(pushed)}
    /\ \E b \in DOMAIN freed : b \in {pushed[i].ts : i \in 1..Len(pushed)} /\ b \notin
            {appended[i].chunk.ts : i \in 1..Len(appended)}
    /\ audioQueue # << >>

\* the capture task ends a pass in which it recorded a chunk
PushStep == recPc = "record" /\ recPc' = "loop"

\* C20: the bounded queue never holds more than AUDIO_QUEUE_SIZE chunks; a push on
\* the full queue leaves the queue as it is, and the buffers allocated and not yet
\* freed are never more than the capacity of the queue plus one in capture and one
\* in persistence.
C20_Backpressure ==
    /\ [](/\ Len(audioQueue) <= AUDIO_QUEUE_SIZE
          /\ Cardinality(Outstanding) <= AUDIO_QUEUE_SIZE + 2)
    /\ [][PushStep /\ Len(audioQueue) = AUDIO_QUEUE_SIZE =>
            audioQueue' = audioQueue /\ Outstanding' = Outstanding]_vars

\* the queue is full, persistence works on one more buffer, and a push has failed
C20_Witness ==
    /\ Len(audioQueue) = AUDIO_QUEUE_SIZE
    /\ InPersistence # {}
    /\ Cardinality(Outstanding) = AUDIO_QUEUE_SIZE + 1
    /\ \E b \in DOMAIN freed : b \notin {pushed[i].ts : i \in 1..Len(pushed)}
------------------------------------------------------------------------------
(* The gate of the upload task *)

\* the upload task is inside a cycle: between the take of uploadMutex and its give
InCycle == upState = "alive" /\ upPc # "check"

\* C21: canUpload is true exactly when the link is connected, the backend is
\* reachable, files are available and the battery is at or above the upload
\* threshold at the evaluation; the upload task takes the upload lock, reads a file
\* and starts a transfer only in a cycle whose evaluation of canUpload was true.
C21_UploadGate ==
    /\ [](upGate.canUpload <=>
            (upGate.wifi /\ upGate.backend /\ upGate.files /\ upGate.battery))
    /\ [](InCycle => upGate.canUpload)
    /\ [][uploadMutex = "free" /\ uploadMutex' = "uploader" => upGate'.canUpload]_vars

\* one file has been uploaded and the transfer of a later cycle, whose evaluation
\* was true, is in flight with the upload lock held
C21_Witness ==
    /\ upState = "alive"
    /\ upPc = "post"
    /\ uploadMutex = "uploader"
    /\ upGate.canUpload
    /\ Len(uploaded) >= 1

-----------------------------------------------------------------------------
(* peekHead when the storage guard may be busy *)

PeekNext == QEnqueue \/ QPeekWhen(BOOLEAN) \/ QDequeue

SpecPeek == FifoInit /\ [][PeekNext]_vars

IsPeek(op) == op \in {"peek", "peekTimeout"}

-----------------------------------------------------------------------------
(* enqueue and dequeueHead when the card or its guard fails *)

MaxFaults == 2       \* queue operations that meet a fault

\* "guard": the SDLockGuard / xSemaphoreTake times out; "open": SD.open
\* returns no file; "write": print puts fewer bytes on the card than it was given
Faults == {"none", "guard", "open", "write"}

\* the line enqueue appends for a path
QueueLine(p) == IF impl = "FileSystem" THEN p \o <<NL>> ELSE println(p)

\* what dequeueHead writes: remaining (FileSystem.cpp) or the lines copied to
\* the temporary file (main.cpp)
QueueRest(fs) ==
    IF impl = "FileSystem" THEN RemainingAfterHead(readFile(fs, UPLOAD_QUEUE_FILE))
    ELSE main_TempContent(readFile(fs, UPLOAD_QUEUE_FILE))

\* FileSystem::addToFile, addToUploadQueue (main.cpp): the lock or the open
\* fails and nothing is written; file.print writes n bytes only, which
\* addToFile reports and println of main.cpp does not
enqueueWhen(fs, p, fault, n) ==
    IF fault \in {"guard", "open"} THEN [ok |-> FALSE, fs |-> fs]
    ELSE IF fault = "write"
         THEN [ok |-> impl = "main",
               fs |-> SDappend(fs, UPLOAD_QUEUE_FILE, SubSeq(QueueLine(p), 1, n))]
    ELSE enqueue(fs, p)

\* removeFirstFromUploadQueue: the lock or an open fails and nothing is
\* written; FileSystem::overwriteFile has truncated the queue file with
\* SD.open(FILE_WRITE) when print writes n bytes only and returns false;
\* main.cpp replaces the queue file by the temporary file whatever println wrote
dequeueHeadWhen(fs, fault, n) ==
    IF fault \in {"guard", "open"} THEN [ok |-> FALSE, fs |-> fs]
    ELSE IF fault = "write"
         THEN [ok |-> impl = "main",
               fs |-> SDwrite(fs, UPLOAD_QUEUE_FILE, SubSeq(QueueRest(fs), 1, n))]
    ELSE dequeueHead(fs)

\* the result of a queue operation, as the history keeps it
Ret(fault, r) ==
    [fault |-> fault, ok |-> r.ok, faults |-> qRet.faults + (IF fault = "none" THEN 0 ELSE 1)]

fqRest == <<impl, lastPeek, stepVars, capVars, perVars, wavFilesAvailable, backVars, notAux,
            upGate, wakeVars, bootVars>>

FEnqueue ==
    \E p \in QPaths, fault \in Faults, n \in 0..2 :
        LET r == enqueueWhen(sd, p, fault, n)
        IN  /\ Len(enq) < MaxEnq
            /\ fault # "none" => qRet.faults < MaxFaults
            /\ IF fault = "write" THEN n < Len(QueueLine(p)) ELSE n = 0
            /\ sd' = r.fs
            /\ enq' = IF r.ok THEN Append(enq, p) ELSE enq
            /\ hOp' = "enqueue"
            /\ qRet' = Ret(fault, r)
            /\ UNCHANGED <<deq, fqRest>>

FDequeue ==
    \E fault \in Faults, n \in 0..2 :
        LET r == dequeueHeadWhen(sd, fault, n)
        IN  /\ fault # "none" => qRet.faults < MaxFaults
            /\ IF fault = "write"
               THEN n < Len(QueueRest(sd)) /\ SDexists(sd, UPLOAD_QUEUE_FILE)
               ELSE n = 0
            /\ sd' = r.fs
            /\ deq' = IF r.ok /\ deq < Len(enq) THEN deq + 1 ELSE deq
            /\ hOp' = "dequeue"
            /\ qRet' = Ret(fault, r)
            /\ UNCHANGED <<enq, fqRest>>

FaultNext == FEnqueue \/ QPeek \/ FDequeue

SpecFault == FifoInit /\ [][FaultNext]_vars

QueueOp(op) == op \in {"enqueue", "dequeue"}

\* C23: an enqueue or dequeueHead that met a fault (guard not acquired, open
\* or write failed) returns failure and leaves the card as it was
C23_FailureAtomic ==
    [][QueueOp(hOp') /\ qRet'.fault # "none" => ~qRet'.ok /\ sd' = sd]_vars

-----------------------------------------------------------------------------
(* main.cpp: the wake by the button is validated before the device boots *)

BUTTON_PRESS_TIME == 1000
WAKE_WAIT == 2000        \* setup_from_external waits this long for the decision
POLL == 10               \* delay(10) of the waiting loop

\* a plausible slip: every external wake counts as valid
wakeAlwaysValid(pin) == 1

\* buttonTimerCallback lines 199-208: valid when the button is still pressed
wakeDecision(pin) == IF pin = "LOW" THEN 1 ELSE 0

\* setup() has just been entered after ESP_SLEEP_WAKEUP_EXT0: the memory is
\* as initialised, no task exists, the button may have been released already
WakeInit ==
    /\ SysInit
    /\ CapBoot /\ PerBoot /\ wavFilesAvailable = FALSE /\ NetBoot /\ UpBoot /\ RtBoot
    /\ PwrBoot /\ LogBoot /\ WifiBoot /\ MemBoot
    /\ sdUsers = {}
    /\ gPc = [t \in SdTasks \cup {SETUP} |-> "idle"]
    /\ booted = FALSE
    /\ upGate = NoGate
    /\ qRet = NoRet
    /\ NvsBoot
    /\ externalWakeTriggered = FALSE
    /\ externalWakeValid = -1
    /\ buttonTimer = -1
    /\ buttonPin \in {"LOW", "HIGH"}
    /\ setupPc = "external"
    /\ startTime = 0

wakeRest == <<qVars, capVars, perVars, wavFilesAvailable, upVars, rtVars, wifiConnected,
              backendReachable, nextBackendCheckTime, currentBackendInterval, httpMutex,
              logVars, wifiVars, memVars, sdUsers, gPc, dsPc, upGate, qRet, bootVars>>

\* the timer has expired and its callback has not run yet
TimerDue == buttonTimer # -1 /\ now >= buttonTimer

\* a plausible slip: the loop waits for the decision without a time limit
waitsForDecision(valid, elapsed) == valid = -1

\* setup_from_external line 304, the condition of the waiting loop
stillWaiting(valid, elapsed) == valid = -1 /\ elapsed < WAKE_WAIT

\* setup_from_external lines 298-303: arm the one-shot timer, note the time;
\* xTimerStart(buttonTimer, 0) does not block and its result is not looked at,
\* so the timer is armed only when the command was accepted
SetupFromExternalWhen(accepted) ==
    /\ setupPc = "external"
    /\ externalWakeTriggered' = TRUE
    /\ \E started \in accepted :
          buttonTimer' = IF started THEN now + BUTTON_PRESS_TIME ELSE -1
    /\ startTime' = now
    /\ setupPc' = "wait"
    /\ UNCHANGED <<externalWakeValid, buttonPin, now, asleep, booted, wakeRest>>

SetupFromExternal == SetupFromExternalWhen({TRUE})

\* the user presses or releases the button
ButtonMoves ==
    /\ ~asleep
    /\ buttonPin' = IF buttonPin = "LOW" THEN "HIGH" ELSE "LOW"
    /\ UNCHANGED <<externalWakeTriggered, externalWakeValid, buttonTimer, setupPc, startTime,
                   now, asleep, booted, wakeRest>>

\* lines 304-306: one pass of the waiting loop, delay(10); the timer task runs
\* its callback during the delay in which the timer expires
SetupWait ==
    /\ setupPc = "wait"
    /\ ~TimerDue
    /\ stillWaiting(externalWakeValid, now - startTime)
    /\ now' = now + POLL
    /\ UNCHANGED <<wakeVars, asleep, booted, wakeRest>>

\* buttonTimerCallback lines 195-209, the branch after an external wake
WakeCallback ==
    /\ ~asleep
    /\ TimerDue
    /\ externalWakeTriggered
    /\ externalWakeValid' = wakeDecision(buttonPin)
    /\ recordingRequested' = IF wakeDecision(buttonPin) = 1 THEN TRUE ELSE recordingRequested
    /\ externalWakeTriggered' = FALSE
    /\ buttonTimer' = -1
    /\ UNCHANGED <<buttonPin, setupPc, startTime, now, asleep, booted>>
    /\ UNCHANGED <<qVars, readyForDeepSleep, wasRecording, recPc, recChunk, capSeq, audioQueue,
                   toggles, session, pushed, perVars, wavFilesAvailable, upVars, rtVars,
                   wifiConnected, backendReachable, nextBackendCheckTime,
                   currentBackendInterval, httpMutex, logVars, wifiVars, memVars, sdUsers, gPc,
                   dsPc, upGate, qRet, bootVars>>

\* lines 308-321: the loop is left; boot on a valid wake, else initDeepSleep
SetupDecide ==
    /\ setupPc = "wait"
    /\ ~TimerDue
    /\ ~stillWaiting(externalWakeValid, now - startTime)
    /\ IF externalWakeValid = 1
       THEN setupPc' = "boot" /\ UNCHANGED asleep
       ELSE setupPc' = "done" /\ asleep' = TRUE
    /\ UNCHANGED <<externalWakeTriggered, externalWakeValid, buttonTimer, buttonPin, startTime,
                   now, booted, wakeRest>>

\* setup_from_boot: the tasks of the pipeline are created, the button
\* interrupt is attached
SetupFromBoot ==
    /\ setupPc = "boot"
    /\ setupPc' = "done"
    /\ booted' = TRUE
    /\ UNCHANGED <<externalWakeTriggered, externalWakeValid, buttonTimer, buttonPin, startTime,
                   now, asleep, wakeRest>>

\* a task created by setup_from_boot takes a step
Booted(step) == booted /\ ~asleep /\ step

WakeNext ==
    \/ SetupFromExternal
    \/ ButtonMoves
    \/ SetupWait
    \/ WakeCallback
    \/ SetupDecide
    \/ SetupFromBoot
    \/ Booted(ButtonToggle)
    \/ Booted(RecDecide({TRUE}))
    \/ Booted(RecCaptureSend({TRUE}))

SpecWake == WakeInit /\ [][WakeNext]_vars

\* the step in which the armed timer fires after the external wake
TimerFires == TimerDue /\ externalWakeTriggered /\ buttonTimer' = -1

\* the pipeline has not been started
PipelineIdle == ~booted /\ recPc = "loop" /\ session = 0 /\ pushed = << >>

\* C24: after an external wake externalWakeValid leaves "not determined" only
\* in the step in which the timer fires; it becomes valid, together with
\* recordingRequested, exactly when the button is pressed at that time, and
\* invalid otherwise; after an invalid wake the pipeline is never started, the
\* only thing setup does is to sleep, and recordingRequested stays false
C24_WakeValidation ==
    /\ [][externalWakeValid = -1 /\ externalWakeValid' # -1 => TimerFires]_vars
    /\ [][externalWakeValid # -1 => externalWakeValid' = externalWakeValid]_vars
    /\ [][TimerFires => /\ (externalWakeValid' = 1) <=> (buttonPin = "LOW")
                        /\ (externalWakeValid' = 0) <=> (buttonPin # "LOW")
                        /\ recordingRequested' <=> (externalWakeValid' = 1)]_vars
    /\ [](externalWakeValid = 0 => ~recordingRequested /\ PipelineIdle)
    /\ [](externalWakeValid = 0 /\ setupPc = "done" => asleep)
    /\ [](externalWakeValid = -1 /\ setupPc \in {"external", "wait"} => ~recordingRequested /\ PipelineIdle)

\* a valid wake: the button was held, recording was requested by the wake
\* and the capture task has queued a chunk of its first session
C24_Witness ==
    /\ externalWakeValid = 1
    /\ booted
    /\ toggles = 0
    /\ recordingRequested
    /\ Len(pushed) >= 1

-----------------------------------------------------------------------------
(* The last log messages before deep sleep *)

\* PowerManager::initDeepSleep line 221: storeCurrentTime() writes the time file
\* with the storage guard taken and logs that it did
DsStore ==
    /\ dsPc = "store"
    /\ sdMutex = "free"
    /\ logQueue < LOG_QUEUE_SIZE
    /\ logQueue' = logQueue + 1
    /\ dsPc' = "last"
    /\ UNCHANGED <<qVars, capVars, perVars, wavFilesAvailable, backVars, asleep, lfPc, lfHeld,
                   notPwrLog>>

\* PowerManager::enterDeepSleep lines 100-103: the final message is sent to the
\* log queue, delay(100) begins
DsLast ==
    /\ dsPc = "last"
    /\ logQueue < LOG_QUEUE_SIZE
    /\ logQueue' = logQueue + 1
    /\ dsPc' = "nap"
    /\ UNCHANGED <<qVars, capVars, perVars, wavFilesAvailable, backVars, asleep, lfPc, lfHeld,
                   notPwrLog>>

\* PowerManager::enterDeepSleep line 109: delay(100) is over, esp_deep_sleep_start()
DsHalt ==
    /\ dsPc = "nap"
    /\ asleep' = TRUE
    /\ UNCHANGED <<qVars, capVars, perVars, wavFilesAvailable, backVars, dsPc, notPwr>>

FlushNext ==
    \/ Awake(DsDelay)
    \/ Awake(DsCheck({TRUE}))
    \/ Awake(DsFlush)
    \/ Awake(DsStore)
    \/ Awake(DsLast)
    \/ Awake(DsHalt)
    \/ Awake(LogFlush)
    \/ Awake(LogWrite)
    \/ Awake(TaskLog)

SpecFlush == CaptureInit /\ [][FlushNext]_vars

\* C25: when the device is in deep sleep the log queue is empty and the flush
\* task holds no batch that it has taken and not yet written
C25_LogsFlushed == asleep => logQueue = 0 /\ lfHeld = 0

-----------------------------------------------------------------------------
(* Who starts an uploader *)

\* an upload task is created in this step
StartsUploader == upState # "alive" /\ upState' = "alive"

\* the GET of reachability task i returns 200 in this step
ProbeSucceeds(i) ==
    /\ rt[i].state = "alive"
    /\ rt[i].pc = "probe"
    /\ httpMutex = Holder(i)
    /\ httpMutex' = "free"
    /\ backendReachable'

\* one chunk has been persisted and queued, the link has come up and WiFiGotIP
\* has started the first reachability task
RestartInit ==
    LET chunk == [type |-> END, ts |-> 1, sess |-> 1]
        path == FileName(1, 0, 1, END)
        card == SDwrite(NoFiles, UPLOAD_QUEUE_FILE, EmptyStr)
    IN  /\ impl = "FileSystem"
        /\ sd = addToUploadQueue(overwriteFile(card, path, WavData(chunk)), path).fs
        /\ enq = << >>
        /\ deq = 0
        /\ lastPeek = EmptyStr
        /\ hOp = "none"
        /\ StepIdle
        /\ CapBoot
        /\ perPc = "recv"
        /\ perChunk = NoChunk
        /\ perFile = EmptyStr
        /\ audioFileIndex = 1
        /\ bootSession = 1
        /\ appended = <<[path |-> path, chunk |-> chunk]>>
        /\ wavFilesAvailable = TRUE
        /\ wifiConnected = TRUE
        /\ backendReachable = FALSE
        /\ now = 0
        /\ nextBackendCheckTime = 0
        /\ currentBackendInterval = MIN_SCAN_INTERVAL
        /\ httpMutex = "free"
        /\ UpBoot
        /\ rt = [i \in RTIds |-> IF i = 1 THEN NewTask ELSE NoTask]
        /\ reachabilityTaskHandle = 1
        /\ PwrBoot
        /\ LogBoot
        /\ GuardBoot
        /\ WifiUp
        /\ AuxBoot
        /\ allocated = {1}
        /\ freed = freeBuffer(<< >>, 1)

\* millis() advances by the ten minutes after which a reachable backend is checked again
TickRecheck ==
    /\ now + RECHECK_INTERVAL <= MaxClock
    /\ now' = now + RECHECK_INTERVAL
    /\ UNCHANGED <<extVars, qVars, capVars, perVars, wavFilesAvailable, upVars, rtVars>>
    /\ UNCHANGED <<wifiConnected, backendReachable, nextBackendCheckTime,
                   currentBackendInterval, httpMutex>>

RestartNext ==
    \/ Running(WiFiGotIP)
    \/ Running(WiFiDisconnected(StaleOutcomes))
    \/ Running(Tick)
    \/ Running(TickRecheck)
    \/ Running(UpCheck({TRUE}))
    \/ Running(UpPeek)
    \/ Running(UpEmpty)
    \/ Running(UpRead(BOOLEAN))
    \/ Running(UpHttpTake)
    \/ Running(UpPost(HttpCodes))
    \/ Running(UpDelete)
    \/ Running(UpRmRead)
    \/ Running(UpRmWrite)
    \/ Running(UpIncr)
    \/ Running(UpUnlock)
    \/ Running(\E i \in RTIds : RTLoop(i, BOOLEAN))
    \/ Running(\E i \in RTIds : RTProbe(i, BOOLEAN, BOOLEAN))

SpecRestart == RestartInit /\ [][RestartNext]_vars

\* C26: after the uploader stopped on the failure threshold (and no transfer
\* succeeded since), an upload task is created only in the step in which a
\* reachability task receives the success of its probe
C26_RestartOnlyAfterProbe ==
    [][StartsUploader /\ failuresInRow >= MAX_CONSECUTIVE_UPLOAD_FAILURES
         => \E i \in RTIds : ProbeSucceeds(i)]_vars

-----------------------------------------------------------------------------
(* What a failed transfer leaves behind *)

\* the POST of the uploader returns in this step
PostReturns == upState = "alive" /\ upPc = "post" /\ upPc' # "post"

\* the uploader is about to call incrementConsecutiveUploadFailures
BeforeIncr == upState = "alive" /\ upPc = "incr"

-----------------------------------------------------------------------------
(* What a successful probe resets *)

\* C28: in the step in which a reachability task receives the success of its
\* probe, consecutiveUploadFailures becomes 0
C28_ProbeResetsFailures ==
    [][(\E i \in RTIds : ProbeSucceeds(i)) => consecutiveUploadFailures' = 0]_vars

-----------------------------------------------------------------------------
(* When the two controllers probe *)

\* the connection task is at the top of its loop
ScanCycle == wcState = "alive" /\ wcPc = "loop"

\* the pass of the connection task that begins here calls scanNetworks()
ScanStarts ==
    ENABLED (/\ WcLoop(ScanResults)
             /\ ~connectionInProgress
             /\ attempts' = attempts + 1 \/ wcPc' = "write")

\* reachability task i is at the top of its loop
CheckCycle(i) == rt[i].state = "alive" /\ rt[i].pc = "loop"

\* the pass of reachability task i that begins here calls checkBackendReachability()
CheckStarts(i) ==
    ENABLED (/\ RTLoop(i, {TRUE})
             /\ rt'[i] # rt[i] \/ nextBackendCheckTime' # nextBackendCheckTime)

\* a further scan is within the bound on connection attempts
ScanAllowed == attempts < MaxAttempts

-----------------------------------------------------------------------------
(* The side effect of a stop request *)

\* a step takes recordingRequested from true to false
RequestedFalls == recordingRequested /\ ~recordingRequested'

\* C30: every step that takes recordingRequested from true to false, whoever
\* makes it, also sets readyForDeepSleep; a step that does not make that
\* transition leaves readyForDeepSleep as it was
C30_StopArmsSleep ==
    /\ [][RequestedFalls => readyForDeepSleep']_vars
    /\ [][~RequestedFalls /\ recordingRequested' # recordingRequested
            => readyForDeepSleep' = readyForDeepSleep]_vars

-----------------------------------------------------------------------------
(* The wait for the wake decision ends *)

\* what setup itself does after an external wake
SetupSteps ==
    SetupFromExternalWhen(BOOLEAN) \/ SetupWait \/ WakeCallback \/ SetupDecide \/ SetupFromBoot

WaitNext ==
    \/ SetupFromExternalWhen(BOOLEAN)
    \/ ButtonMoves
    \/ SetupWait
    \/ WakeCallback
    \/ SetupDecide
    \/ SetupFromBoot
    \/ Booted(ButtonToggle)
    \/ Booted(RecDecide({TRUE}))
    \/ Booted(RecCaptureSend({TRUE}))

\* setup() runs on the main task, the timer callback on the timer task: both
\* are scheduled whenever they can run
SpecWait == WakeInit /\ [][WaitNext]_vars /\ WF_vars(SetupSteps)

\* the waiting loop is left
WaitEnds == setupPc = "wait" /\ setupPc' # "wait"

\* C31: the wait for the wake decision never lasts longer than WAKE_WAIT and
\* always ends, also when the timer was never armed; when it ends, boot
\* continues exactly when the wake is valid, and an undetermined or invalid
\* wake sends the device back to sleep
C31_WaitTerminates ==
    /\ [](setupPc = "wait" => now - startTime <= WAKE_WAIT)
    /\ <>(setupPc = "done")
    /\ [][WaitEnds => /\ (setupPc' = "boot") <=> (externalWakeValid = 1)
                      /\ externalWakeValid # 1 => asleep' /\ setupPc' = "done"]_vars
    /\ [](setupPc = "done" /\ externalWakeValid # 1 => asleep /\ ~booted)

\* the timer was never armed: the wait ran to its limit without a decision
\* and the device went back to sleep
C31_Witness ==
    /\ setupPc = "done"
    /\ buttonTimer = -1
    /\ externalWakeValid = -1
    /\ now - startTime = WAKE_WAIT
    /\ asleep
    /\ ~booted

-----------------------------------------------------------------------------
(* Names of recordings across boots *)

MaxBoots == 2            \* restarts of the device

\* the device restarts (reset, or wake from deep sleep) and Application::init
\* runs again: the memory is as constructed, bootSession is read from the
\* preferences, incremented and put back (incrementBootSession does not look
\* at the result of begin()/putInt()), audioFileIndex starts at 0
Restart(putResults) ==
    /\ boots < MaxBoots
    /\ boots' = boots + 1
    /\ pastBoots' = pastBoots \cup {[session |-> bootSession, count |-> audioFileIndex]}
    /\ bootSession' = nvsBootSession + 1
    /\ \E stored \in putResults :
          nvsBootSession' = IF stored THEN nvsBootSession + 1 ELSE nvsBootSession
    /\ audioFileIndex' = 0
    /\ recordingRequested' = FALSE
    /\ readyForDeepSleep' = FALSE
    /\ wasRecording' = FALSE
    /\ recPc' = "loop"
    /\ recChunk' = NoChunk
    /\ audioQueue' = << >>
    /\ perPc' = "recv"
    /\ perChunk' = NoChunk
    /\ perFile' = EmptyStr
    /\ wavFilesAvailable' = FALSE
    /\ UNCHANGED <<capSeq, toggles, session, pushed, appended, qVars, backVars, notAux,
                   upGate, qRet, wakeVars>>

BootNext ==
    \/ ButtonToggle
    \/ RecDecide({TRUE})
    \/ RecCaptureSend({TRUE})
    \/ PerRecv
    \/ PerWrite(BOOLEAN)
    \/ PerEnq
    \/ Restart(BOOLEAN)

SpecBoot == CaptureInit /\ [][BootNext]_vars

\* the persistence task names a chunk
NamesChunk == perPc = "recv" /\ perPc' = "write"

\* the chunk has been dealt with, written or not
ChunkDone == perPc \in {"write", "enq"} /\ perPc' = "recv"

\* the pair was handed out in an earlier boot
UsedBefore(boot, index) ==
    \E b \in pastBoots : b.session = boot /\ index < b.count

\* C32: naming a chunk takes the current (bootSession, audioFileIndex) and
\* increments audioFileIndex by one, whether or not the write succeeds;
\* nothing else changes audioFileIndex within a boot; every boot increments
\* bootSession once and has it stored; so no pair is handed out twice
C32_UniqueNames ==
    /\ [][NamesChunk => /\ audioFileIndex' = audioFileIndex + 1
                        /\ perFile' = FileName(bootSession, audioFileIndex,
                                                perChunk'.ts, perChunk'.type)]_vars
    /\ [][boots' = boots /\ (ChunkDone \/ ~NamesChunk)
            => audioFileIndex' = audioFileIndex /\ bootSession' = bootSession]_vars
    /\ [][boots' # boots => bootSession' = nvsBootSession + 1 /\ audioFileIndex' = 0]_vars
    /\ [](nvsBootSession = bootSession)
    /\ [][NamesChunk => ~UsedBefore(bootSession, audioFileIndex)]_vars

-----------------------------------------------------------------------------
(* filesAvailable against the durable queue *)

\* persistence is between two chunks and the uploader between two cycles
BetweenSteps == perPc = "recv" /\ upPc = "check"

\* C33: whenever persistence is between chunks and the uploader is between
\* cycles, filesAvailable = false implies that the durable queue is empty
C33_FilesAvailableSound ==
    BetweenSteps /\ ~wavFilesAvailable => isUploadQueueEmpty(sd)

-----------------------------------------------------------------------------
(* Guards at the moment a task is deleted *)

\* the uploader is deleted in this step, by itself or from outside
UploaderDeleted == upState = "alive" /\ upState' # "alive"

\* reachability task i is deleted in this step, by itself or from outside
ReachabilityDeleted(i) == rt[i].state = "alive" /\ rt'[i].state # "alive"

\* C34: a task that is deleted holds neither the upload lock nor the network
\* guard at that moment (the storage guard is taken and given inside one file
\* call, which is one step here)
C34_DeletedHoldsNothing ==
    /\ [][UploaderDeleted => uploadMutex # "uploader" /\ httpMutex # "uploader"]_vars
    /\ [][\A i \in RTIds : ReachabilityDeleted(i) => httpMutex # Holder(i)]_vars

-----------------------------------------------------------------------------
(* A queue head whose file is gone *)

MaxResets == 1           \* resets of the device while the uploader is observed

\* the device resets after the uploader has deleted the local file and before
\* it has removed the path from the queue, and boots again with the link up
\* and the backend found: the card keeps what was written, the memory is as
\* after Application::init, bootSession is the stored one plus one, the tasks
\* start at the top
ResetAndBoot ==
    /\ boots < MaxResets
    /\ upPc = "rmRead"
    /\ boots' = boots + 1
    /\ pastBoots' = pastBoots \cup {[session |-> bootSession, count |-> audioFileIndex]}
    /\ bootSession' = nvsBootSession + 1
    /\ nvsBootSession' = nvsBootSession + 1
    /\ audioFileIndex' = 0
    /\ perPc' = "recv"
    /\ perChunk' = NoChunk
    /\ perFile' = EmptyStr
    /\ wavFilesAvailable' = FALSE
    /\ upState' = "alive"
    /\ upPc' = "check"
    /\ nextFile' = EmptyStr
    /\ httpResponseCode' = 0
    /\ upContent' = EmptyStr
    /\ uploadTaskHandle' = "task"
    /\ consecutiveUploadFailures' = 0
    /\ shouldRestartReachabilityTask' = FALSE
    /\ uploadMutex' = "free"
    /\ uploadInProgress' = FALSE
    /\ httpMutex' = "free"
    /\ UNCHANGED <<uploaded, failuresInRow, appended, capVars, qVars, rtVars, wifiConnected,
                   backendReachable, now, nextBackendCheckTime, currentBackendInterval,
                   notAux, upGate, qRet, wakeVars>>

StaleNext ==
    \/ Awake(PerRecvChunk)
    \/ Awake(PerWrite({TRUE}))
    \/ Awake(PerEnq)
    \/ Awake(UpCheck({TRUE}))
    \/ Awake(UpPeek)
    \/ Awake(UpEmpty)
    \/ Awake(UpRead(BOOLEAN))
    \/ Awake(UpHttpTake)
    \/ Awake(UpPost({HTTP_CODE_OK, HTTP_CODE_CREATED}))
    \/ Awake(UpDelete)
    \/ Awake(UpRmRead)
    \/ Awake(UpRmWrite)
    \/ Awake(UpIncr)
    \/ Awake(UpUnlock)
    \/ Awake(ResetAndBoot)

\* the tasks are scheduled again and again; a reset is not owed to anybody
SpecStale ==
    /\ E2EInit
    /\ [][StaleNext]_vars
    /\ WF_vars(PersistenceSteps)
    /\ WF_vars(UploaderSteps)

\* the path at the head of the durable queue has no file on the card
StaleHead ==
    /\ ~isUploadQueueEmpty(sd)
    /\ ~SDexists(sd, getNextUploadFile(sd))

\* C35: a head of the durable queue whose local file no longer exists does
\* not stay at the head forever
C35_StaleHeadLeaves == StaleHead ~> ~StaleHead

-----------------------------------------------------------------------------
(* Recordings nobody knows of *)

OrphanNext ==
    \/ PerRecvChunk
    \/ PerWrite(BOOLEAN)
    \/ PerEnqWhen(BOOLEAN)
    \/ UpCheck({TRUE})
    \/ UpPeek
    \/ UpEmpty
    \/ UpRead({TRUE})
    \/ UpHttpTake
    \/ UpPost({HTTP_CODE_OK, HTTP_CODE_CREATED})
    \/ UpDeleteWhen(BOOLEAN)
    \/ UpRmRead
    \/ UpRmWrite
    \/ UpUnlock

SpecOrphan == E2EInit /\ [][OrphanNext]_vars

\* the paths of a sequence
PathSet(paths) == {paths[i] : i \in 1..Len(paths)}

\* the uploader removes the head of the durable queue in this step
RemovesHead == upPc = "rmWrite" /\ upPc' = "unlock"

\* C36: while persistence is between two chunks every recording on the card
\* that has not been uploaded has its path in the durable queue, and the
\* uploader removes a head from the queue only when its file is gone
C36_NoOrphans ==
    /\ [](perPc = "recv" =>
            Recordings(sd) \subseteq PathSet(Drain(sd)) \cup PathSet(uploaded))
    /\ [][RemovesHead => ~SDexists(sd, nextFile)]_vars

-----------------------------------------------------------------------------
(* Tasks and their handles *)

\* the reachability tasks that exist
LiveProbes == {i \in RTIds : rt[i].state = "alive"}

\* C37: at most one reachability task exists (the uploader is a single task
\* by construction), and each stored handle is non-null exactly while its
\* task is alive, the reachability handle being that of the live task
C37_OneTaskPerHandle ==
    /\ Cardinality(LiveProbes) <= 1
    /\ uploadTaskHandle # "null" <=> upState = "alive"
    /\ reachabilityTaskHandle # 0 <=> LiveProbes # {}
    /\ reachabilityTaskHandle # 0 => reachabilityTaskHandle \in LiveProbes

-----------------------------------------------------------------------------
(* Reachability of the backend and the link *)

\* the link is lost in this step
LinkLost == wifiConnected /\ ~wifiConnected'

\* C38: the backend is marked reachable only while the link is connected;
\* the step in which the link is lost leaves it marked not reachable
C38_ReachableOnlyConnected ==
    /\ [](backendReachable => wifiConnected)
    /\ [][LinkLost => ~backendReachable']_vars

-----------------------------------------------------------------------------
(* The low-battery cut of an open session *)

\* canRecord finds the battery too low while a session is open
BatteryCut ==
    /\ recPc = "loop" /\ wasRecording
    /\ recordingRequested /\ ~recordingRequested'
    /\ toggles' = toggles

\* the pass that captures the End chunk comes to its end
EndPassDone == recPc = "record" /\ recChunk.type = END /\ recPc' = "loop"

\* the capture task begins a Start or Middle chunk
BeginsChunk == recPc = "loop" /\ recPc' = "record" /\ recChunk'.type \in {START, MIDDLE}

\* C39: when the battery is found too low while a session is open the request
\* is cleared and the capture task turns to the End chunk of that session;
\* the pass that captures it pushes exactly that one chunk and closes the
\* session; a Start or Middle chunk is begun only in a pass that finds
\* recording requested and the battery sufficient
C39_CutEndsSession ==
    /\ [][BatteryCut => recPc' = "record" /\ recChunk'.type = END
                          /\ recChunk'.sess = session]_vars
    /\ [][EndPassDone => pushed' = Append(pushed, recChunk) /\ ~wasRecording']_vars
    /\ [][BeginsChunk => recordingRequested /\ recordingRequested']_vars

-----------------------------------------------------------------------------
(* isSystemIdle as a query *)

\* C40: the pass of deepSleepTask that evaluates isSystemIdle() leaves
\* recordingRequested, filesAvailable and backendReachable as they were,
\* whatever the battery readings are
C40_IdleQueryPure ==
    [][DsCheck(BOOLEAN) =>
        UNCHANGED <<recordingRequested, wavFilesAvailable, backendReachable>>]_vars

====
